---- MODULE Spec2Model ----
(***************************************************************************)
(* A model of the HeyU hub (heyu/hub.py) and of the HeyU notifier          *)
(* (heyu/notifier.py) on top of the HeyU protocol codec                    *)
(* (heyu/protocol.py), and of the backoff generator of the popup driver    *)
(* (heyu/gtk.py).                                                          *)
(*                                                                         *)
(* The hub is a gevent program: every connection is served by its own      *)
(* greenlet, which calls HubApplication.recv_frame for each frame it       *)
(* reads.  HubServer.submit walks a list copy of the subscriber registry   *)
(* and writes one frame per entry; the model takes one step per write so   *)
(* that the handlers of the other connections may run between two writes   *)
(* of one fan-out.  Every other handler is one step, and a notify is read  *)
(* only when no fan-out is in progress.  A connection's send_frame raises  *)
(* once the connection is closed, and close() does not call closed().      *)
(* The frames a step writes are kept in the variable wrote until the next  *)
(* step, and the step itself in the variable act.                          *)
(***************************************************************************)
EXTENDS Integers, Sequences, FiniteSets, TLC

(***************************************************************************)
(* Bounds of the model.                                                    *)
(***************************************************************************)
\* number of connections the listeners accept in one behaviour
NConn == 2
\* number of frames the hub reads, over all connections, in one behaviour
MaxFrames == 3
\* wire versions a peer may name are 0..MaxVersion
MaxVersion == 1
\* number of HubServer.stop calls in one behaviour that takes stop in steps
MaxStops == 2
\* number of frames the hub sends to the notifier in one behaviour
MaxHubFrames == 3
\* number of signals delivered to the notifier in one behaviour
MaxSignals == 2
\* number of times the notifier's driver starts the server in one behaviour
MaxStarts == 2
\* number of times the loop of backoff() goes round in one behaviour
MaxTurns == 13
\* number of msgpack.dumps calls counted per Message and version
MaxDumps == 2

ConnIds == 1..NConn
WireVersions == 0..MaxVersion

(***************************************************************************)
(* heyu/protocol.py                                                        *)
(***************************************************************************)
\* Python's None
Null == "<None>"

URGENCY_LOW == 0
URGENCY_NORMAL == 1
URGENCY_CRITICAL == 2

curr_version == 0

\* the keys of the _versions dictionary
versions == {0}

\* the message types _versions[version] describes
known_types(version) ==
    {"notify", "accepted", "subscribe", "subscribed", "goodbye", "error"}

\* a dictionary without keys
EmptyDict == [k \in {} |-> Null]

\* _versions[version][msg_type].get('required', set())
required(version, msg_type) ==
    CASE msg_type = "notify" -> {"app_name", "summary", "body"}
      [] msg_type = "accepted" -> {"id"}
      [] msg_type = "error" -> {"reason"}
      [] OTHER -> {}

\* _versions[version][msg_type].get('defaults', {})
defaults(version, msg_type) ==
    IF msg_type = "notify"
    THEN [urgency |-> URGENCY_LOW, category |-> Null, id |-> Null]
    ELSE EmptyDict

\* outcome of a call: a returned value or a raised exception
Return(v) == [ok |-> TRUE, val |-> v]
Raise(e) == [ok |-> FALSE, exc |-> e]

\* msgpack: a frame is the packed form of one value; a value is a map
\* (the dictionary items) or something else
dumps(data) == [kind |-> "map", items |-> data]
loads(frame) == frame
isdict(data) == data.kind = "map"

\* the frame cache of a Message: a dictionary version -> frame
EmptyCache == [v \in {} |-> dumps(EmptyDict)]

\* Message.__init__ that stores every argument passed
MessageInit_keeps_defaults(msg_type, args, version, hasframe, frame) ==
    IF version \notin versions
    THEN Raise("cannot handle PDUs of version " \o ToString(version))
    ELSE LET known == msg_type \in known_types(version)
             missing == IF known
                        THEN required(version, msg_type) \ DOMAIN args
                        ELSE {}
         IN  IF missing # {}
             THEN Raise("missing required PDU field '"
                        \o (CHOOSE k \in missing : TRUE)
                        \o "' for '" \o msg_type \o "' messages")
             ELSE Return([version |-> version,
                          msg_type |-> msg_type,
                          args |-> args,
                          frame_cache |->
                              IF hasframe
                              THEN [v \in {version} |-> frame]
                              ELSE EmptyCache])

\* Message.__init__ that stores no argument its type declares a default for,
\* whatever the value passed
MessageInit_drops_defaulted(msg_type, args, version, hasframe, frame) ==
    IF version \notin versions
    THEN Raise("cannot handle PDUs of version " \o ToString(version))
    ELSE LET known == msg_type \in known_types(version)
             dflt == IF known THEN defaults(version, msg_type) ELSE EmptyDict
             missing == IF known
                        THEN required(version, msg_type) \ DOMAIN args
                        ELSE {}
             kept == {k \in DOMAIN args : k \notin DOMAIN dflt}
         IN  IF missing # {}
             THEN Raise("missing required PDU field '"
                        \o (CHOOSE k \in missing : TRUE)
                        \o "' for '" \o msg_type \o "' messages")
             ELSE Return([version |-> version,
                          msg_type |-> msg_type,
                          args |-> [k \in kept |-> args[k]],
                          frame_cache |->
                              IF hasframe
                              THEN [v \in {version} |-> frame]
                              ELSE EmptyCache])

\* Message.__init__(msg_type, __version__=version, __frame__=frame, **args);
\* hasframe tells whether __frame__ was passed
MessageInit(msg_type, args, version, hasframe, frame) ==
    IF version \notin versions
    THEN Raise("cannot handle PDUs of version " \o ToString(version))
    ELSE LET known == msg_type \in known_types(version)
             dflt == IF known THEN defaults(version, msg_type) ELSE EmptyDict
             missing == IF known
                        THEN required(version, msg_type) \ DOMAIN args
                        ELSE {}
             kept == {k \in DOMAIN args :
                         k \notin DOMAIN dflt \/ args[k] # dflt[k]}
         IN  IF missing # {}
             THEN Raise("missing required PDU field '"
                        \o (CHOOSE k \in missing : TRUE)
                        \o "' for '" \o msg_type \o "' messages")
             ELSE Return([version |-> version,
                          msg_type |-> msg_type,
                          args |-> [k \in kept |-> args[k]],
                          frame_cache |->
                              IF hasframe
                              THEN [v \in {version} |-> frame]
                              ELSE EmptyCache])

\* protocol.Message(msg_type, **args), for the calls that cannot raise
Message(msg_type, args) ==
    MessageInit(msg_type, args, curr_version, FALSE, dumps(EmptyDict)).val

\* an exception that is not a ValueError
RaiseTypeError(e) == [ok |-> FALSE, exc |-> e, type |-> "TypeError"]

\* Message.from_frame(frame); the call of the constructor passes __frame__
\* by name and the other items of the map as **kwargs, which Python refuses
\* with a TypeError when the map has an item named __frame__ (none of the
\* frames the hub and the notifier read in this model has one)
from_frame(frame) ==
    LET data == loads(frame) IN
    IF ~isdict(data)
    THEN Raise("invalid PDU")
    ELSE IF "__version__" \notin DOMAIN data.items
    THEN Raise("missing required PDU field '__version__'")
    ELSE IF "msg_type" \notin DOMAIN data.items
    THEN Raise("missing required PDU field 'msg_type'")
    ELSE IF "__frame__" \in DOMAIN data.items
    THEN RaiseTypeError("__init__() got multiple values for keyword "
                        \o "argument '__frame__'")
    ELSE MessageInit(data.items["msg_type"],
                     [k \in DOMAIN data.items \ {"__version__", "msg_type"}
                         |-> data.items[k]],
                     data.items["__version__"], TRUE, frame)

\* Message.known
known(msg) == msg.msg_type \in known_types(msg.version)

\* Message.__getattr__(name), for a name the message has or defaults
getattr(msg, name) ==
    IF name \in DOMAIN msg.args
    THEN msg.args[name]
    ELSE defaults(msg.version, msg.msg_type)[name]

\* Message.to_frame(version) that writes the defaults of the arguments the
\* Message does not store into the frame
to_frame_full(msg, version) ==
    IF version \in DOMAIN msg.frame_cache
    THEN [ok |-> TRUE, val |-> msg.frame_cache[version], msg |-> msg,
          dumped |-> FALSE]
    ELSE IF version # curr_version
    THEN [ok |-> FALSE, exc |-> "cannot serialize into version "
                                \o ToString(version), msg |-> msg,
          dumped |-> FALSE]
    ELSE LET dflt == defaults(msg.version, msg.msg_type)
             data == [k \in DOMAIN msg.args \cup DOMAIN dflt
                               \cup {"msg_type", "__version__"}
                        |-> IF k = "msg_type" THEN msg.msg_type
                            ELSE IF k = "__version__" THEN msg.version
                            ELSE IF k \in DOMAIN msg.args THEN msg.args[k]
                            ELSE dflt[k]]
             frame == dumps(data)
         IN  [ok |-> TRUE, val |-> frame,
              msg |-> [msg EXCEPT !.frame_cache =
                          [v \in DOMAIN msg.frame_cache \cup {version} |->
                              IF v = version THEN frame
                              ELSE msg.frame_cache[v]]],
              dumped |-> TRUE]

\* Message.to_frame(version) that does not look into the cache
to_frame_uncached(msg, version) ==
    IF version # curr_version
    THEN [ok |-> FALSE, exc |-> "cannot serialize into version "
                                \o ToString(version), msg |-> msg,
          dumped |-> FALSE]
    ELSE LET data == [k \in DOMAIN msg.args \cup {"msg_type", "__version__"}
                        |-> IF k = "msg_type" THEN msg.msg_type
                            ELSE IF k = "__version__" THEN msg.version
                            ELSE msg.args[k]]
             frame == dumps(data)
         IN  [ok |-> TRUE, val |-> frame,
              msg |-> [msg EXCEPT !.frame_cache =
                          [v \in DOMAIN msg.frame_cache \cup {version} |->
                              IF v = version THEN frame
                              ELSE msg.frame_cache[v]]],
              dumped |-> TRUE]

\* Message.to_frame(version): the frame, the message with its cache, and
\* whether msgpack.dumps was called
to_frame(msg, version) ==
    IF version \in DOMAIN msg.frame_cache
    THEN [ok |-> TRUE, val |-> msg.frame_cache[version], msg |-> msg,
          dumped |-> FALSE]
    ELSE IF version # curr_version
    THEN [ok |-> FALSE, exc |-> "cannot serialize into version "
                                \o ToString(version), msg |-> msg,
          dumped |-> FALSE]
    ELSE LET data == [k \in DOMAIN msg.args \cup {"msg_type", "__version__"}
                        |-> IF k = "msg_type" THEN msg.msg_type
                            ELSE IF k = "__version__" THEN msg.version
                            ELSE msg.args[k]]
             frame == dumps(data)
         IN  [ok |-> TRUE, val |-> frame,
              msg |-> [msg EXCEPT !.frame_cache =
                          [v \in DOMAIN msg.frame_cache \cup {version} |->
                              IF v = version THEN frame
                              ELSE msg.frame_cache[v]]],
              dumped |-> TRUE]

\* msg.to_frame() of a freshly built message
frame_of(msg) == to_frame(msg, curr_version).val

(***************************************************************************)
(* The environment: peers, their addresses and the frames they send.       *)
(***************************************************************************)
\* addresses a peer connects from
PeerAddrs == {"127.0.0.1", "::1", "10.0.0.1"}

\* the peers of the hub: a local one over IPv4, a remote one, a local one
\* over IPv6, a remote one, and so on, connecting in this order
PeerAddr(c) ==
    IF c % 2 = 0 THEN "10.0.0.1"
    ELSE IF c % 4 = 1 THEN "127.0.0.1"
    ELSE "::1"

\* socket.getfqdn() on the hub's host
getfqdn == "hub.example.org"

\* socket.getnameinfo(addr, 0)[0] when the lookup succeeds
getnameinfo(addr) == "peer-" \o addr

\* the endpoints the hub listens on, one tendril manager each
Endpoints == {"0.0.0.0", "::"}

\* the packed form of a PDU a peer builds by hand
wire(msg_type, version, args) ==
    dumps([k \in DOMAIN args \cup {"msg_type", "__version__"} |->
              IF k = "msg_type" THEN msg_type
              ELSE IF k = "__version__" THEN version
              ELSE args[k]])

NotifyPlain == [app_name |-> "chat", summary |-> "hi", body |-> "there"]
NotifyFull == [app_name |-> "mail", summary |-> "new", body |-> "inbox",
               urgency |-> URGENCY_CRITICAL, category |-> "email",
               id |-> "my-id"]
NotifyEmptyId == [app_name |-> "chat", summary |-> "hi", body |-> "there",
                  id |-> ""]

\* frames a peer may send to the hub
InFrames ==
    << wire("notify", 0, NotifyPlain),
       wire("notify", 0, NotifyFull),
       wire("notify", 0, NotifyEmptyId),
       wire("subscribe", 0, EmptyDict),
       wire("subscribe", MaxVersion, EmptyDict),
       wire("goodbye", 0, EmptyDict),
       wire("ping", 0, [seq |-> "1"]),
       [kind |-> "list", items |-> EmptyDict] >>

(***************************************************************************)
(* State.                                                                  *)
(***************************************************************************)
VARIABLES
    running,      \* HubServer._running
    listeners,    \* HubServer._listeners: the state of each manager
    subscribers,  \* HubServer._subscribers: version per client, or NoSub
    tendril,      \* per connection: "none" (not accepted), "open", "closed"
    remote_addr,  \* per connection: the peer address
    hostname,     \* HubApplication.hostname
    persist,      \* HubApplication.persist
    fan,          \* per connection: the HubServer.submit call of its handler,
                  \* with the connections whose closed() ran meanwhile (lost)
                  \* and those that said goodbye meanwhile (left)
    uuids,        \* number of uuid.uuid4() calls made
    nrecv,        \* number of frames read so far, over all connections
    wrote,        \* the frames the last step wrote: <<[to, frame], ...>>
    act           \* the last step, see Step

VARIABLES
    stopping,     \* HubServer.stop calls that are past their manager loop
    nstop         \* number of HubServer.stop calls made so far

VARIABLES
    hub_app,        \* NotifierServer._hub_app: "None", "True" or "app"
    manager,        \* NotifierServer._manager: the state of the manager
    nconn,          \* the notifier's connection to the hub: "none",
                    \* "connecting", "open" or "closed"
    notifications,  \* NotifierServer._notifications
    notify_event,   \* NotifierServer._notify_event: the flag of the event
    pc,             \* where the notifier's driver is: "init", "starting"
                    \* (in start()), "idle" (about to call next()), "wait"
                    \* (in _notify_event.wait()), "stopped" (StopIteration),
                    \* "exited" (sys.exit())
    sess,           \* the session: its number and what it has done so far
    nact,           \* the last step of the notifier, see NStep
    nframes,        \* number of frames read from the hub so far
    nsig,           \* number of signals delivered so far
    nstart          \* number of NotifierServer.start calls so far

VARIABLES
    driver,         \* the sink driver that iterates over the NotifierServer
    params,         \* backoff(max_sleep, threshold, recover): its arguments
    mocked,         \* whether time.time and time.sleep are the test's mocks
    clock,          \* what time.time() returns, in seconds
    last_time,      \* backoff: last_time
    last_sleep,     \* backoff: last_sleep
    bpc,            \* backoff: "new" before its first next(), "yielded" after
    turn,           \* number of times backoff has been resumed
    bact            \* the last step of backoff, see BStep

VARIABLES
    pdus,           \* the Message objects at hand, one per slot, or NoMsg
    given,          \* per slot: what the Message was built from
    outs,           \* per slot: the (version, frame) pairs to_frame returned
    ndumps,         \* per slot and version: the calls of msgpack.dumps
    cact            \* the last call of the codec, see CStep

VARIABLES
    chan            \* the hub's side of the notifier's connection, when the
                    \* notifier is one of the hub's peers: the frames the
                    \* hub has written to it that the notifier has not read

\* HubServer.stop in progress
lifecycle == <<stopping, nstop>>

\* the notifier
nvars == <<hub_app, manager, nconn, notifications, notify_event, pc, sess,
           nact, nframes, nsig, nstart>>

\* backoff()
bvars == <<params, mocked, clock, last_time, last_sleep, bpc, turn, bact>>

\* the codec
cvars == <<pdus, given, outs, ndumps, cact>>

\* the notifier's driver and the codec
rest == <<driver, bvars, cvars, chan>>

\* the state the hub's frame handlers do not touch
others == <<lifecycle, nvars, driver, bvars, cvars>>

\* the hub
hubvars == <<running, listeners, subscribers, tendril, remote_addr, hostname,
             persist, fan, uuids, nrecv, wrote, act>>

vars == <<running, listeners, subscribers, tendril, remote_addr, hostname,
          persist, fan, uuids, nrecv, wrote, act, others, chan>>

\* no entry in the _subscribers dictionary
NoSub == -1

\* a Message-shaped placeholder
NoMsg == [version |-> 0, msg_type |-> "", args |-> EmptyDict,
          frame_cache |-> EmptyCache]

\* an entry of the queue of notifications: a Message of the session that
\* queued it, or None
Item(msg, session) == [none |-> FALSE, msg |-> msg, session |-> session]
Sentinel == [none |-> TRUE, msg |-> NoMsg, session |-> 0]
NoItem == [none |-> FALSE, msg |-> NoMsg, session |-> 0]

\* a session that has done nothing yet: the events it queued, the calls
\* of NotifierApplication.disconnect, the goodbye frames it sent and what
\* ended it ("goodbye", "error", "malformed" for a frame of the hub,
\* "closed" for the transport), and what ended the session before it
Session(n) == [n |-> n, connected |-> 0, disconnected |-> 0, error |-> 0,
               disconnects |-> 0, goodbyes |-> 0, ended |-> "",
               before |-> ""]

\* the record of a step of the notifier: its name, the branch it took, the
\* entry next() returned and the frames written to the hub
NStep(name, kind) ==
    [name |-> name, kind |-> kind, item |-> NoItem, sent |-> <<>>]

\* the record of a step of backoff: the elapsed time it measured, whether
\* it took the attempt for a failure, the sleep before it and the sleep it
\* chose, and the number of failures and of successes in a row so far with
\* the sleep the row of successes began at and the number of its attempts
\* that lasted recover seconds or more; took is the time the body of the
\* loop, the connection, lasted
BStep(name) ==
    [name |-> name, elapsed |-> 0, failed |-> FALSE, before |-> 0,
     slept |-> 0, failures |-> 0, successes |-> 0, from |-> 0,
     decays |-> 0, took |-> 0]

\* the defaults of gtk_notifier
DefaultParams == [max_sleep |-> 300, threshold |-> 30, recover |-> 5]

\* backoff() called, its body not yet entered
InitBackoff ==
    /\ clock = 0
    /\ last_time = 0
    /\ last_sleep = 0
    /\ bpc = "new"
    /\ turn = 0
    /\ bact = BStep("init")

\* the Message objects a caller holds at a time
Slots == {1, 2}

\* what a Message was built from: the arguments of Message(msg_type,
\* __version__=version, **args) for "init", the frame handed to
\* Message.from_frame for "frame"
Given(how, msg_type, version, args, frame) ==
    [how |-> how, msg_type |-> msg_type, version |-> version,
     args |-> args, frame |-> frame]
NoGiven == Given("none", "", 0, EmptyDict, dumps(EmptyDict))

\* a call of the codec: its name, the slot, the version asked for, whether
\* it returned, whether to_frame found the version in the cache, whether
\* msgpack.dumps was called, and the frame taken or returned; for the
\* constructor, the type and the arguments it was called with
CStep(name, slot, version, ok, hit, dumped, frame) ==
    [name |-> name, slot |-> slot, version |-> version, ok |-> ok,
     hit |-> hit, dumped |-> dumped, frame |-> frame,
     msg_type |-> "", args |-> EmptyDict]

\* no Message built yet
InitCodec ==
    /\ pdus = [s \in Slots |-> NoMsg]
    /\ given = [s \in Slots |-> NoGiven]
    /\ outs = [s \in Slots |-> {}]
    /\ ndumps = [s \in Slots |-> [v \in WireVersions |-> 0]]
    /\ cact = CStep("init", 0, 0, TRUE, FALSE, FALSE, dumps(EmptyDict))

\* the notifier is not one of the hub's peers
NoWire == [on |-> FALSE, q |-> <<>>]

\* the popup driver of heyu/gtk.py with its defaults
InitRest ==
    /\ driver = "gtk"
    /\ params = DefaultParams
    /\ mocked = FALSE
    /\ InitBackoff
    /\ InitCodec
    /\ chan = NoWire

\* NotifierServer.__init__
InitNotifier ==
    /\ hub_app = "None"
    /\ manager = "new"
    /\ nconn = "none"
    /\ notifications = <<>>
    /\ notify_event = FALSE
    /\ pc = "init"
    /\ sess = Session(0)
    /\ nact = NStep("init", "")
    /\ nframes = 0
    /\ nsig = 0
    /\ nstart = 0

\* no stop in progress, the notifier as NotifierServer.__init__ leaves it
InitOthers ==
    /\ stopping = 0
    /\ nstop = 0
    /\ InitNotifier
    /\ InitRest

\* no submit call in progress
IdleFan == [phase |-> "idle", msg |-> NoMsg, notif |-> NoMsg, id |-> Null,
            snapshot |-> {},
            pending |-> {}, attempted |-> {}, delivered |-> {}, lost |-> {},
            left |-> {}, raised |-> FALSE, turns |-> 0]

\* str(uuid.uuid4()) for the n-th call
uuid4(n) == "uuid-" \o ToString(n)

Registered == {c \in ConnIds : subscribers[c] # NoSub}
InFanout == {c \in ConnIds : fan[c].phase = "fanout"}

\* self._subscribers.values(): the (client, version) pairs of the registry
Entries == {<<s, subscribers[s]>> : s \in Registered}

\* the clients of a list of registry values
Clients(values) == {p[1] : p \in values}

\* the record of a step: its name, the connection it serves, the dispatch
\* of the frame it read, the submit call it ended, the registry value it
\* wrote for and the place in InFrames of the frame it read
Step(name, c, kind, f) ==
    [name |-> name, conn |-> c, kind |-> kind, f |-> f, target |-> <<0, 0>>,
     frame |-> 0]

\* HubServer.__init__
InitHub ==
    /\ running = FALSE
    /\ listeners = [e \in Endpoints |-> "new"]
    /\ subscribers = [c \in ConnIds |-> NoSub]
    /\ tendril = [c \in ConnIds |-> "none"]
    /\ remote_addr = [c \in ConnIds |-> ""]
    /\ hostname = [c \in ConnIds |-> ""]
    /\ persist = [c \in ConnIds |-> FALSE]
    /\ fan = [c \in ConnIds |-> IdleFan]
    /\ uuids = 0
    /\ nrecv = 0
    /\ wrote = <<>>
    /\ act = Step("init", 0, "", IdleFan)

Init ==
    /\ InitHub
    /\ InitOthers

(***************************************************************************)
(* tendril: the connection an Application owns                             *)
(***************************************************************************)
\* Application.send_frame(frame) raises on a closed connection
send_frame_raises(td, c) == td[c] # "open"

\* one frame written to connection c
Written(c, frame) == <<[to |-> c, frame |-> frame]>>

\* send_frame inside "try: ... except Exception: pass"
try_send_frame(td, c, frame) ==
    IF send_frame_raises(td, c) THEN <<>> ELSE Written(c, frame)

\* Application.close(): the connection is closed, closed() is not called
close(td, c) == [td EXCEPT ![c] = "closed"]

\* the connection of the hub the notifier is the peer of, when it is one
NotifierConn == CHOOSE c \in ConnIds : \A d \in ConnIds : c <= d

\* the frames among w that were written to the notifier's connection
ToNotifier(w) ==
    LET mine == SelectSeq(w, LAMBDA x : x.to = NotifierConn)
    IN  [i \in 1..Len(mine) |-> mine[i].frame]

\* Tendril's send_frame: what a step writes to the notifier's connection
\* is what the notifier will read, in the order it was written
Wire ==
    chan' = IF chan.on THEN [chan EXCEPT !.q = @ \o ToNotifier(wrote')]
            ELSE chan

RECURSIVE Concat(_, _)
Concat(f, S) ==
    IF S = {} THEN <<>>
    ELSE LET c == CHOOSE x \in S : TRUE IN f[c] \o Concat(f, S \ {c})

(***************************************************************************)
(* HubServer                                                               *)
(***************************************************************************)
\* HubServer.subscribe(client, version)
HubServer_subscribe(subs, client, version) ==
    [subs EXCEPT ![client] = version]

\* HubServer.unsubscribe without the pop: the entry stays
HubServer_unsubscribe_keeps(subs, client) == subs

\* HubServer.unsubscribe(client)
HubServer_unsubscribe(subs, client) ==
    [subs EXCEPT ![client] = NoSub]

\* HubServer.start()
Start ==
    /\ IF running
       THEN /\ UNCHANGED <<running, listeners>>
            /\ act' = Step("Start", 0, "raised", IdleFan)
       ELSE /\ listeners' = [e \in Endpoints |-> "started"]
            /\ running' = TRUE
            /\ act' = Step("Start", 0, "", IdleFan)
    /\ wrote' = <<>>
    /\ UNCHANGED <<subscribers, tendril, remote_addr, hostname,
                   persist, fan, uuids, nrecv>>
    /\ UNCHANGED others
    /\ Wire

\* HubServer.stop() without its loop over the subscribers
Stop_managers_only ==
    /\ InFanout = {}
    /\ IF ~running
       THEN /\ UNCHANGED <<running, listeners>>
            /\ act' = Step("Stop", 0, "ignored", IdleFan)
       ELSE /\ listeners' = [e \in Endpoints |-> "stopped"]
            /\ running' = FALSE
            /\ act' = Step("Stop", 0, "", IdleFan)
    /\ wrote' = <<>>
    /\ UNCHANGED <<subscribers, tendril, remote_addr, hostname, persist, fan,
                   uuids, nrecv>>
    /\ UNCHANGED others
    /\ Wire

\* HubServer.stop(): stop the managers, disconnect every subscriber
Stop ==
    /\ InFanout = {}
    /\ IF ~running
       THEN /\ UNCHANGED <<running, listeners, subscribers, tendril>>
            /\ wrote' = <<>>
            /\ act' = Step("Stop", 0, "ignored", IdleFan)
       ELSE /\ listeners' = [e \in Endpoints |-> "stopped"]
            /\ subscribers' = [c \in ConnIds |-> NoSub]
            /\ wrote' = Concat([c \in ConnIds |->
                                   try_send_frame(tendril, c,
                                       frame_of(Message("goodbye", EmptyDict)))],
                               Registered)
            /\ tendril' = [c \in ConnIds |->
                              IF c \in Registered THEN "closed"
                              ELSE tendril[c]]
            /\ running' = FALSE
            /\ act' = Step("Stop", 0, "", IdleFan)
    /\ UNCHANGED <<remote_addr, hostname, persist, fan, uuids, nrecv>>
    /\ UNCHANGED others
    /\ Wire

\* HubServer.shutdown() that keeps the registry
Shutdown_keeps_registry ==
    /\ InFanout = {}
    /\ IF ~running
       THEN /\ UNCHANGED <<running, listeners, tendril>>
            /\ act' = Step("Shutdown", 0, "ignored", IdleFan)
       ELSE /\ listeners' = [e \in Endpoints |-> "shutdown"]
            /\ tendril' = [c \in ConnIds |->
                              IF tendril[c] = "open" THEN "closed"
                              ELSE tendril[c]]
            /\ running' = FALSE
            /\ act' = Step("Shutdown", 0, "", IdleFan)
    /\ wrote' = <<>>
    /\ UNCHANGED <<subscribers, remote_addr, hostname, persist, fan, uuids,
                   nrecv>>
    /\ UNCHANGED others
    /\ Wire

\* HubServer.shutdown(): the managers drop every connection
Shutdown ==
    /\ InFanout = {}
    /\ IF ~running
       THEN /\ UNCHANGED <<running, listeners, subscribers, tendril>>
            /\ act' = Step("Shutdown", 0, "ignored", IdleFan)
       ELSE /\ listeners' = [e \in Endpoints |-> "shutdown"]
            /\ tendril' = [c \in ConnIds |->
                              IF tendril[c] = "open" THEN "closed"
                              ELSE tendril[c]]
            /\ subscribers' = [c \in ConnIds |-> NoSub]
            /\ running' = FALSE
            /\ act' = Step("Shutdown", 0, "", IdleFan)
    /\ wrote' = <<>>
    /\ UNCHANGED <<remote_addr, hostname, persist, fan, uuids, nrecv>>
    /\ UNCHANGED others
    /\ Wire

(***************************************************************************)
(* HubApplication                                                          *)
(***************************************************************************)
\* origin_host that knows the IPv4 loopback address only
origin_host_v4(addr, resolves) ==
    IF addr = "127.0.0.1"
    THEN getfqdn
    ELSE IF resolves THEN getnameinfo(addr)
    ELSE addr

\* HubApplication.__init__: the origin host of the peer; resolves tells
\* whether socket.getnameinfo returns or raises
origin_host(addr, resolves) ==
    IF addr \in {"127.0.0.1", "::1"}
    THEN getfqdn
    ELSE IF resolves THEN getnameinfo(addr)
    ELSE addr

\* HubServer._acceptor(tend): a started manager accepts a connection
Accept(c, addr, resolves) ==
    /\ \E e \in Endpoints : listeners[e] = "started"
    /\ tendril[c] = "none"
    /\ \A d \in ConnIds : d < c => tendril[d] # "none"
    /\ tendril' = [tendril EXCEPT ![c] = "open"]
    /\ remote_addr' = [remote_addr EXCEPT ![c] = addr]
    /\ hostname' = [hostname EXCEPT ![c] = origin_host(addr, resolves)]
    /\ persist' = [persist EXCEPT ![c] = FALSE]
    /\ wrote' = <<>>
    /\ act' = Step("Accept", c, IF resolves THEN "resolves" ELSE "fails",
                   IdleFan)
    /\ UNCHANGED <<running, listeners, subscribers,  fan, uuids, nrecv>>
    /\ UNCHANGED others
    /\ Wire

\* HubApplication.closed(error): the transport reports the connection lost
Closed(c) ==
    /\ tendril[c] = "open"
    /\ c \notin InFanout
    /\ tendril' = [tendril EXCEPT ![c] = "closed"]
    /\ subscribers' = HubServer_unsubscribe(subscribers, c)
    /\ fan' = [k \in ConnIds |->
                  IF fan[k].phase = "fanout"
                  THEN [fan[k] EXCEPT !.lost = @ \cup {c}]
                  ELSE fan[k]]
    /\ wrote' = <<>>
    /\ act' = Step("Closed", c, "", IdleFan)
    /\ UNCHANGED <<running, listeners, remote_addr, hostname, persist, uuids,
                   nrecv>>
    /\ UNCHANGED others
    /\ Wire

\* reply error{reason} and leave the connection open
reply_error_only(c, reason) ==
    /\ wrote' = Written(c, frame_of(Message("error", [reason |-> reason])))
    /\ UNCHANGED <<subscribers, tendril, persist, fan, uuids>>

\* reply error{reason}, then close: the tail of recv_frame for an unknown
\* message type and for a frame that does not decode
reply_error_close(c, reason) ==
    /\ wrote' = Written(c, frame_of(Message("error", [reason |-> reason])))
    /\ tendril' = close(tendril, c)
    /\ UNCHANGED <<subscribers, persist, fan, uuids>>

\* Python truth value of a message id
falsy(v) == v = Null \/ v = ""

\* HubApplication.notify(msg) up to the call of self.server.submit(notif),
\* and the first statement of HubServer.submit: the list of the registry's
\* values the loop walks
HubApplication_notify(c, msg) ==
    LET mint == falsy(getattr(msg, "id"))
        id == IF mint THEN uuid4(uuids + 1) ELSE getattr(msg, "id")
        app_name == "[" \o hostname[c] \o "]" \o getattr(msg, "app_name")
        notif == Message("notify",
                         [id |-> id, app_name |-> app_name,
                          summary |-> getattr(msg, "summary"),
                          body |-> getattr(msg, "body"),
                          urgency |-> getattr(msg, "urgency"),
                          category |-> getattr(msg, "category")])
        values == Entries
    IN  /\ uuids' = IF mint THEN uuids + 1 ELSE uuids
        /\ fan' = [fan EXCEPT ![c] =
                      [IdleFan EXCEPT !.phase = "fanout", !.msg = msg,
                                      !.notif = notif,
                                      !.id = id, !.snapshot = values,
                                      !.pending = values]]
        /\ wrote' = <<>>
        /\ UNCHANGED <<subscribers, tendril, persist>>

\* HubApplication.subscribe that closes the connection after its reply
\* whatever the outcome
HubApplication_subscribe_closes(c, msg, raises) ==
    IF raises
    THEN /\ wrote' = Written(c, frame_of(Message("error",
                                 [reason |-> "Failed to subscribe: failed"])))
         /\ tendril' = close(tendril, c)
         /\ UNCHANGED <<subscribers, persist, fan, uuids>>
    ELSE /\ subscribers' = HubServer_subscribe(subscribers, c, msg.version)
         /\ persist' = [persist EXCEPT ![c] = TRUE]
         /\ wrote' = Written(c, frame_of(Message("subscribed", EmptyDict)))
         /\ tendril' = close(tendril, c)
         /\ UNCHANGED <<fan, uuids>>

\* HubApplication.subscribe that registers the client and leaves the reply
\* for later
HubApplication_subscribe_registers(c, msg, raises) ==
    IF raises
    THEN /\ wrote' = Written(c, frame_of(Message("error",
                                 [reason |-> "Failed to subscribe: failed"])))
         /\ tendril' = IF ~persist[c] THEN close(tendril, c) ELSE tendril
         /\ UNCHANGED <<subscribers, persist, fan, uuids>>
    ELSE /\ subscribers' = HubServer_subscribe(subscribers, c, msg.version)
         /\ persist' = [persist EXCEPT ![c] = TRUE]
         /\ wrote' = <<>>
         /\ UNCHANGED <<tendril, fan, uuids>>

\* HubApplication.subscribe(msg); raises tells whether self.server.subscribe
\* raised
HubApplication_subscribe(c, msg, raises) ==
    IF raises
    THEN /\ wrote' = Written(c, frame_of(Message("error",
                                 [reason |-> "Failed to subscribe: failed"])))
         /\ tendril' = IF ~persist[c] THEN close(tendril, c) ELSE tendril
         /\ UNCHANGED <<subscribers, persist, fan, uuids>>
    ELSE /\ subscribers' = HubServer_subscribe(subscribers, c, msg.version)
         /\ persist' = [persist EXCEPT ![c] = TRUE]
         /\ wrote' = Written(c, frame_of(Message("subscribed", EmptyDict)))
         /\ UNCHANGED <<tendril, fan, uuids>>

\* HubApplication.disconnect() without its self.close()
HubApplication_disconnect_open(c) ==
    /\ subscribers' = HubServer_unsubscribe(subscribers, c)
    /\ wrote' = try_send_frame(tendril, c,
                               frame_of(Message("goodbye", EmptyDict)))
    /\ tendril' = tendril
    /\ fan' = [k \in ConnIds |->
                  IF fan[k].phase = "fanout"
                  THEN [fan[k] EXCEPT !.left = @ \cup {c}]
                  ELSE fan[k]]
    /\ UNCHANGED <<persist, uuids>>

\* HubApplication.disconnect()
HubApplication_disconnect(c) ==
    /\ subscribers' = HubServer_unsubscribe(subscribers, c)
    /\ wrote' = try_send_frame(tendril, c,
                               frame_of(Message("goodbye", EmptyDict)))
    /\ tendril' = close(tendril, c)
    /\ fan' = [k \in ConnIds |->
                  IF fan[k].phase = "fanout"
                  THEN [fan[k] EXCEPT !.left = @ \cup {c}]
                  ELSE fan[k]]
    /\ UNCHANGED <<persist, uuids>>

\* the branch of recv_frame a frame takes
dispatch(frame) ==
    LET r == from_frame(frame) IN
    IF ~r.ok THEN "malformed"
    ELSE IF r.val.msg_type \in {"notify", "subscribe", "goodbye"}
    THEN r.val.msg_type
    ELSE "unknown"

\* recv_frame that drops a frame it cannot decode: no reply, no close
recv_frame_drops(c, frame, raises) ==
    LET r == from_frame(frame) IN
    IF ~r.ok
    THEN /\ wrote' = <<>>
         /\ UNCHANGED <<subscribers, tendril, persist, fan, uuids>>
    ELSE IF r.val.msg_type = "notify"
    THEN HubApplication_notify(c, r.val)
    ELSE IF r.val.msg_type = "subscribe"
    THEN HubApplication_subscribe(c, r.val, raises)
    ELSE IF r.val.msg_type = "goodbye"
    THEN HubApplication_disconnect(c)
    ELSE reply_error_close(c, "Unknown message type \"" \o r.val.msg_type
                              \o "\"")

\* HubApplication.recv_frame(frame)
recv_frame(c, frame, raises) ==
    LET r == from_frame(frame) IN
    IF ~r.ok
    THEN reply_error_close(c, "Failed to decode message: " \o r.exc)
    ELSE IF r.val.msg_type = "notify"
    THEN HubApplication_notify(c, r.val)
    ELSE IF r.val.msg_type = "subscribe"
    THEN HubApplication_subscribe(c, r.val, raises)
    ELSE IF r.val.msg_type = "goodbye"
    THEN HubApplication_disconnect(c)
    ELSE reply_error_close(c, "Unknown message type \"" \o r.val.msg_type
                              \o "\"")

\* the connection's greenlet reads a frame and hands it to recv_frame; a
\* notify is read when no other handler is inside HubServer.submit
Recv(c, i, raises) ==
    /\ tendril[c] = "open"
    /\ c \notin InFanout
    /\ nrecv < MaxFrames
    /\ raises => dispatch(InFrames[i]) = "subscribe"
    /\ dispatch(InFrames[i]) = "notify" => InFanout = {}
    /\ recv_frame(c, InFrames[i], raises)
    /\ nrecv' = nrecv + 1
    /\ act' = [Step("Recv", c,
                    IF raises THEN "subscribe-raised"
                    ELSE dispatch(InFrames[i]),
                    IdleFan) EXCEPT !.frame = i]
    /\ UNCHANGED <<running, listeners, remote_addr, hostname>>
    /\ UNCHANGED others
    /\ Wire

\* FanoutWrite without the try/except of the loop: a failure to encode or
\* to write leaves the loop as an exception
FanoutWrite_uncaught(k, s, version) ==
    /\ fan[k].phase = "fanout"
    /\ ~fan[k].raised
    /\ <<s, version>> \in fan[k].pending
    /\ LET r == to_frame(fan[k].notif, version)
           sent == r.ok /\ ~send_frame_raises(tendril, s)
       IN  /\ wrote' = IF sent THEN Written(s, r.val) ELSE <<>>
           /\ fan' = [fan EXCEPT
                         ![k].notif = r.msg,
                         ![k].pending = @ \ {<<s, version>>},
                         ![k].attempted = @ \cup {s},
                         ![k].turns = @ + 1,
                         ![k].delivered = IF sent THEN @ \cup {s} ELSE @,
                         ![k].raised = ~sent]
    /\ act' = [Step("FanoutWrite", k, "", IdleFan) EXCEPT
                  !.target = <<s, version>>]
    /\ UNCHANGED <<running, listeners, subscribers, tendril, remote_addr,
                   hostname, persist, uuids, nrecv>>
    /\ UNCHANGED others
    /\ Wire

\* FanoutWrite over the registry as it is now instead of the list copy
\* taken when submit started
FanoutWrite_live(k, s, version) ==
    /\ fan[k].phase = "fanout"
    /\ ~fan[k].raised
    /\ \/ <<s, version>> \in fan[k].pending
       \/ <<s, version>> \in Entries /\ s \notin fan[k].attempted
    /\ LET r == to_frame(fan[k].notif, version)
           sent == r.ok /\ ~send_frame_raises(tendril, s)
       IN  /\ wrote' = IF sent THEN Written(s, r.val) ELSE <<>>
           /\ fan' = [fan EXCEPT
                         ![k].notif = r.msg,
                         ![k].pending = @ \ {<<s, version>>},
                         ![k].attempted = @ \cup {s},
                         ![k].turns = @ + 1,
                         ![k].delivered = IF sent THEN @ \cup {s} ELSE @]
    /\ act' = [Step("FanoutWrite", k, "", IdleFan) EXCEPT
                  !.target = <<s, version>>]
    /\ UNCHANGED <<running, listeners, subscribers, tendril,
                   remote_addr, hostname, persist, uuids, nrecv>>
    /\ UNCHANGED others
    /\ Wire

\* one turn of the loop of HubServer.submit: encode for the subscriber's
\* version and write, ignoring a failure of either
FanoutWrite(k, s, version) ==
    /\ fan[k].phase = "fanout"
    /\ ~fan[k].raised
    /\ <<s, version>> \in fan[k].pending
    /\ LET r == to_frame(fan[k].notif, version)
           sent == r.ok /\ ~send_frame_raises(tendril, s)
       IN  /\ wrote' = IF sent THEN Written(s, r.val) ELSE <<>>
           /\ fan' = [fan EXCEPT
                         ![k].notif = r.msg,
                         ![k].pending = @ \ {<<s, version>>},
                         ![k].attempted = @ \cup {s},
                         ![k].turns = @ + 1,
                         ![k].delivered = IF sent THEN @ \cup {s} ELSE @]
    /\ act' = [Step("FanoutWrite", k, "", IdleFan) EXCEPT
                  !.target = <<s, version>>]
    /\ UNCHANGED <<running, listeners, subscribers, tendril,
                   remote_addr, hostname, persist, uuids, nrecv>>
    /\ UNCHANGED others
    /\ Wire

\* self.server.submit(notif) raises out of the loop
SubmitRaise(k) ==
    /\ fan[k].phase = "fanout"
    /\ ~fan[k].raised
    /\ fan' = [fan EXCEPT ![k].raised = TRUE]
    /\ wrote' = <<>>
    /\ act' = Step("SubmitRaise", k, "", IdleFan)
    /\ UNCHANGED <<running, listeners, subscribers, tendril,
                   remote_addr, hostname, persist, uuids, nrecv>>
    /\ UNCHANGED others
    /\ Wire

\* a reply that is accepted whatever self.server.submit(notif) did
notify_reply_accepts(f) == Message("accepted", [id |-> f.id])

\* the reply HubApplication.notify builds after self.server.submit(notif)
notify_reply(f) ==
    IF f.raised
    THEN Message("error",
                 [reason |-> "Failed to submit notification: failed"])
    ELSE Message("accepted", [id |-> f.id])

\* NotifyReply that does not wait for the loop of submit to end
NotifyReply_early(k) ==
    /\ fan[k].phase = "fanout"
    /\ wrote' = Written(k, frame_of(notify_reply(fan[k])))
    /\ fan' = [fan EXCEPT ![k] = IdleFan]
    /\ tendril' = IF ~persist[k] THEN close(tendril, k) ELSE tendril
    /\ act' = Step("NotifyReply", k, "", fan[k])
    /\ UNCHANGED <<running, listeners, subscribers, remote_addr, hostname,
                   persist, uuids, nrecv>>
    /\ UNCHANGED others
    /\ Wire

\* HubApplication.notify(msg) after self.server.submit(notif): send the
\* reply, and close unless the connection is persistent
NotifyReply(k) ==
    /\ fan[k].phase = "fanout"
    /\ fan[k].pending = {} \/ fan[k].raised
    /\ wrote' = Written(k, frame_of(notify_reply(fan[k])))
    /\ fan' = [fan EXCEPT ![k] = IdleFan]
    /\ tendril' = IF ~persist[k] THEN close(tendril, k) ELSE tendril
    /\ act' = Step("NotifyReply", k, "", fan[k])
    /\ UNCHANGED <<running, listeners, subscribers, remote_addr, hostname,
                   persist, uuids, nrecv>>
    /\ UNCHANGED others
    /\ Wire

Next ==
    \/ Start
    \/ Stop
    \/ Shutdown
    \/ \E c \in ConnIds, resolves \in BOOLEAN :
          Accept(c, PeerAddr(c), resolves)
    \/ \E c \in ConnIds : Closed(c)
    \/ \E c \in ConnIds, i \in 1..Len(InFrames), raises \in BOOLEAN :
          Recv(c, i, raises)
    \/ \E k \in ConnIds, s \in ConnIds, version \in WireVersions :
          FanoutWrite(k, s, version)
    \/ \E k \in ConnIds : SubmitRaise(k)
    \/ \E k \in ConnIds : NotifyReply(k)

Spec == Init /\ [][Next]_vars

(***************************************************************************)
(* The hub with peers at any address, sending notify and subscribe frames: *)
(* the origin host of a connection and the notify it fans out.             *)
(***************************************************************************)
\* the places in InFrames of the frames that reach notify() or subscribe()
OriginFrames ==
    {i \in 1..Len(InFrames) : dispatch(InFrames[i]) \in {"notify", "subscribe"}}

NextOrigin ==
    \/ Start
    \/ \E c \in ConnIds, addr \in PeerAddrs, resolves \in BOOLEAN :
          Accept(c, addr, resolves)
    \/ \E c \in ConnIds, i \in OriginFrames : Recv(c, i, FALSE)
    \/ \E k \in ConnIds, s \in ConnIds, version \in WireVersions :
          FanoutWrite(k, s, version)
    \/ \E k \in ConnIds : NotifyReply(k)

SpecOrigin == Init /\ [][NextOrigin]_vars

(***************************************************************************)
(* HubServer.stop taken in two steps: a manager's stop() may let other     *)
(* greenlets run, a signal handler that calls stop or shutdown among them. *)
(***************************************************************************)
\* HubServer.stop() up to the end of its loop over the managers
StopBegin ==
    /\ InFanout = {}
    /\ nstop < MaxStops
    /\ nstop' = nstop + 1
    /\ IF ~running
       THEN /\ UNCHANGED <<listeners, stopping>>
            /\ act' = Step("StopBegin", 0, "ignored", IdleFan)
       ELSE /\ listeners' = [e \in Endpoints |-> "stopped"]
            /\ stopping' = stopping + 1
            /\ act' = Step("StopBegin", 0, "", IdleFan)
    /\ wrote' = <<>>
    /\ UNCHANGED <<running, subscribers, tendril, remote_addr, hostname,
                   persist, fan, uuids, nrecv>>
    /\ UNCHANGED <<nvars, driver, bvars, cvars>>
    /\ Wire

\* HubServer.stop() from its loop over self._subscribers.values() on
StopEnd ==
    /\ stopping > 0
    /\ stopping' = stopping - 1
    /\ subscribers' = [c \in ConnIds |-> NoSub]
    /\ wrote' = Concat([c \in ConnIds |->
                           try_send_frame(tendril, c,
                               frame_of(Message("goodbye", EmptyDict)))],
                       Registered)
    /\ tendril' = [c \in ConnIds |->
                      IF c \in Registered THEN "closed" ELSE tendril[c]]
    /\ running' = FALSE
    /\ act' = Step("StopEnd", 0, "", IdleFan)
    /\ UNCHANGED <<listeners, remote_addr, hostname, persist, fan, uuids,
                   nrecv, nstop>>
    /\ UNCHANGED <<nvars, driver, bvars, cvars>>
    /\ Wire

\* the places in InFrames of the frames that start no fan-out
StopFrames ==
    {i \in 1..Len(InFrames) : dispatch(InFrames[i]) # "notify"}

NextStop ==
    \/ Start
    \/ StopBegin
    \/ StopEnd
    \/ Shutdown
    \/ \E c \in ConnIds, resolves \in BOOLEAN :
          Accept(c, PeerAddr(c), resolves)
    \/ \E c \in ConnIds, i \in StopFrames : Recv(c, i, FALSE)

SpecStop == Init /\ [][NextStop]_vars

(***************************************************************************)
(* The notifier (heyu/notifier.py).  It is a gevent program as well: the   *)
(* driver iterates over the NotifierServer in one greenlet, the frames of  *)
(* the hub are handled in another and a signal handler runs in a third.    *)
(* Greenlets switch only where one of them blocks, so __iter__ up to the   *)
(* connection attempt, a call of next() up to its return or its wait, a    *)
(* frame handler and a signal handler are one step each.  The connection   *)
(* attempt of start() blocks the driver until the acceptor has run or the  *)
(* attempt has failed.                                                     *)
(***************************************************************************)
CONNECTED == "network.connected"
DISCONNECTED == "network.disconnected"
ERROR == "network.error"

\* NotifierServer._app_name and NotifierServer._app_id
notifier_app_name == "heyu-notifier"
notifier_app_id == "notifier-uuid"

\* the frames the hub sends to a notifier: a notification, the reply to
\* subscribe, goodbye, an error, a message of a type the notifier does not
\* know and a frame that is not a PDU
HubFrames ==
    << wire("notify", 0, NotifyFull),
       wire("subscribed", 0, EmptyDict),
       wire("goodbye", 0, EmptyDict),
       wire("error", 0, [reason |-> "hub failure"]),
       wire("ping", 0, [seq |-> "1"]),
       [kind |-> "list", items |-> EmptyDict] >>

\* the notifier's state as one value, for the methods that call each other;
\* sent collects the frames written to the hub
NotifierState ==
    [hub_app |-> hub_app, manager |-> manager, nconn |-> nconn,
     notifications |-> notifications, notify_event |-> notify_event,
     sess |-> sess, sent |-> <<>>]

\* NotifierServer.notify that puts the notification at the front of the
\* queue
NotifierServer_notify_front(ns, msg) ==
    [ns EXCEPT !.notifications = <<Item(msg, ns.sess.n)>> \o @,
               !.notify_event = TRUE]

\* NotifierServer.notify(msg)
NotifierServer_notify(ns, msg) ==
    [ns EXCEPT !.notifications = Append(@, Item(msg, ns.sess.n)),
               !.notify_event = TRUE]

\* NotifierApplication.notify(summary, body, category)
NotifierApplication_notify(ns, summary, body, category) ==
    LET msg == Message("notify", [summary |-> summary, body |-> body,
                                  category |-> category,
                                  app_name |-> notifier_app_name,
                                  id |-> notifier_app_id])
        queued == NotifierServer_notify(ns, msg)
    IN  [queued EXCEPT
            !.sess.connected = IF category = CONNECTED THEN @ + 1 ELSE @,
            !.sess.disconnected = IF category = DISCONNECTED THEN @ + 1
                                  ELSE @,
            !.sess.error = IF category = ERROR THEN @ + 1 ELSE @]

\* NotifierApplication.disconnect(): the goodbye is written unless
\* send_frame raises, and the connection is closed
NotifierApplication_disconnect(ns) ==
    [ns EXCEPT
        !.sent = IF ns.nconn = "open"
                 THEN Append(@, frame_of(Message("goodbye", EmptyDict)))
                 ELSE @,
        !.nconn = "closed",
        !.sess.goodbyes = IF ns.nconn = "open" THEN @ + 1 ELSE @,
        !.sess.disconnects = @ + 1]

\* NotifierServer.stop that queues the sentinel whoever calls it
NotifierServer_stop_exits(ns, signalled) ==
    IF ns.hub_app = "None"
    THEN ns
    ELSE LET stopped == [ns EXCEPT !.manager = "stopped"]
             gone == IF ns.hub_app # "True"
                     THEN NotifierApplication_disconnect(stopped)
                     ELSE stopped
         IN  [gone EXCEPT
                 !.hub_app = "None",
                 !.notifications = Append(@, Sentinel),
                 !.notify_event = TRUE]

\* NotifierServer.stop(*args); signalled tells whether args were passed
NotifierServer_stop(ns, signalled) ==
    IF ns.hub_app = "None"
    THEN ns
    ELSE LET stopped == [ns EXCEPT !.manager = "stopped"]
             gone == IF ns.hub_app # "True"
                     THEN NotifierApplication_disconnect(stopped)
                     ELSE stopped
         IN  [gone EXCEPT
                 !.hub_app = "None",
                 !.notifications = IF signalled THEN Append(@, Sentinel)
                                   ELSE @,
                 !.notify_event = TRUE]

\* NotifierServer.shutdown(*args); the manager drops the connection
NotifierServer_shutdown_keeps(ns) ==
    IF ns.hub_app = "None"
    THEN ns
    ELSE [ns EXCEPT
             !.manager = "shutdown",
             !.nconn = IF @ = "open" THEN "closed" ELSE @,
             !.hub_app = "None",
             !.notifications = Append(@, Sentinel),
             !.notify_event = TRUE]

NotifierServer_shutdown(ns) ==
    IF ns.hub_app = "None"
    THEN ns
    ELSE [ns EXCEPT
             !.manager = "shutdown",
             !.nconn = IF @ = "open" THEN "closed" ELSE @,
             !.hub_app = "None",
             !.notifications = <<Sentinel>>,
             !.notify_event = TRUE]

\* NotifierApplication.closed(error)
NotifierApplication_closed_twice(ns) ==
    LET told == NotifierApplication_notify(
                    ns, "Connection Closed",
                    "The connection to the HeyU hub has been closed.",
                    DISCONNECTED)
    IN  NotifierServer_stop(
            NotifierApplication_notify(
                told, "Connection Closed",
                "The connection to the HeyU hub has been closed.",
                DISCONNECTED),
            FALSE)

NotifierApplication_closed(ns) ==
    NotifierServer_stop(
        NotifierApplication_notify(
            ns, "Connection Closed",
            "The connection to the HeyU hub has been closed.",
            DISCONNECTED),
        FALSE)

\* NotifierApplication.recv_frame(frame), the error branch
recv_error_then_closed(ns, msg) ==
    NotifierApplication_closed(
        NotifierApplication_disconnect(
            NotifierApplication_notify(
                ns, "Communication Error",
                "An error occurred communicating with the HeyU hub: "
                    \o getattr(msg, "reason"),
                ERROR)))

recv_error(ns, msg) ==
    NotifierServer_stop(
        NotifierApplication_disconnect(
            NotifierApplication_notify(
                ns, "Communication Error",
                "An error occurred communicating with the HeyU hub: "
                    \o getattr(msg, "reason"),
                ERROR)),
        FALSE)

\* NotifierApplication.recv_frame(frame), the branch of the unknown types
recv_unknown_closes(ns, msg) ==
    NotifierServer_stop(
        NotifierApplication_disconnect(
            NotifierApplication_notify(
                ns, "Unknown Server Message",
                "An unrecognized server message of type \""
                    \o msg.msg_type \o "\" was received.",
                ERROR)),
        FALSE)

recv_unknown(ns, msg) ==
    NotifierApplication_notify(
        ns, "Unknown Server Message",
        "An unrecognized server message of type \""
            \o msg.msg_type \o "\" was received.",
        ERROR)

\* NotifierApplication.recv_frame(frame)
NotifierApplication_recv_frame(ns, frame) ==
    LET r == from_frame(frame) IN
    IF ~r.ok
    THEN NotifierServer_stop(
             NotifierApplication_disconnect(
                 NotifierApplication_notify(
                     ns, "Failed To Parse Server Message",
                     "Unable to parse a message from the server: " \o r.exc,
                     ERROR)),
             FALSE)
    ELSE LET msg == r.val IN
         CASE msg.msg_type = "notify" ->
                  NotifierServer_notify(ns, msg)
           [] msg.msg_type = "subscribed" ->
                  NotifierApplication_notify(
                      ns, "Connection Established",
                      "The connection to the HeyU hub has been established.",
                      CONNECTED)
           [] msg.msg_type = "goodbye" ->
                  NotifierApplication_closed(
                      NotifierApplication_disconnect(ns))
           [] msg.msg_type = "error" ->
                  recv_error(ns, msg)
           [] OTHER ->
                  recv_unknown(ns, msg)

\* the branch of NotifierApplication.recv_frame a frame takes
ndispatch(frame) ==
    LET r == from_frame(frame) IN
    IF ~r.ok THEN "malformed"
    ELSE IF r.val.msg_type \in {"notify", "subscribed", "goodbye", "error"}
    THEN r.val.msg_type
    ELSE "unknown"

\* the session of ns ended the way how says
Ended(ns, how) == [ns EXCEPT !.sess.ended = how]

\* the notifier's state after a method has run
Commit(ns) ==
    /\ hub_app' = ns.hub_app
    /\ manager' = ns.manager
    /\ nconn' = ns.nconn
    /\ notifications' = ns.notifications
    /\ notify_event' = ns.notify_event
    /\ sess' = ns.sess

\* "for msg in server": NotifierServer.__iter__() and, when the server is
\* not running, NotifierServer.start() up to the connection attempt; the
\* popup driver comes back here from backoff() when an iteration has ended
NIter ==
    /\ \/ pc = "init"
       \/ pc = "stopped" /\ driver = "gtk"
    /\ IF hub_app = "None"
       THEN /\ nstart < MaxStarts
            /\ nstart' = nstart + 1
            /\ hub_app' = "True"
            /\ manager' = "started"
            /\ nconn' = "connecting"
            /\ sess' = [Session(nstart + 1) EXCEPT !.before = sess.ended]
            /\ pc' = "starting"
            /\ nact' = NStep("NIter", "start")
       ELSE /\ pc' = "idle"
            /\ nact' = NStep("NIter", "running")
            /\ UNCHANGED <<nstart, hub_app, manager, nconn, sess>>
    /\ UNCHANGED <<notifications, notify_event, nframes, nsig>>
    /\ UNCHANGED <<hubvars, lifecycle, rest>>

\* the connection is established: NotifierServer._acceptor(tend) and
\* NotifierApplication.__init__, then connect() and start() return
NAccept ==
    /\ nconn = "connecting"
    /\ hub_app' = "app"
    /\ nconn' = "open"
    /\ pc' = IF pc = "starting" THEN "idle" ELSE pc
    /\ nact' = [NStep("NAccept", IF hub_app = "True" THEN "" ELSE "late")
                   EXCEPT !.sent =
                       <<frame_of(Message("subscribe", EmptyDict))>>]
    /\ UNCHANGED <<manager, notifications, notify_event, sess, nframes, nsig,
                   nstart>>
    /\ UNCHANGED <<hubvars, lifecycle, rest>>

\* the connection attempt fails: connect() raises, and so do start() and
\* __iter__()
NConnectFails ==
    /\ nconn = "connecting"
    /\ nconn' = "none"
    /\ pc' = IF pc = "starting" THEN "raised" ELSE pc
    /\ nact' = NStep("NConnectFails", "")
    /\ UNCHANGED <<hub_app, manager, notifications, notify_event, sess,
                   nframes, nsig, nstart>>
    /\ UNCHANGED <<hubvars, lifecycle, rest>>

\* Tendril calls NotifierApplication.recv_frame(frame) with the next frame
\* of the connection
NRead(frame) ==
    /\ nconn = "open"
    /\ nframes < MaxHubFrames
    /\ nframes' = nframes + 1
    /\ LET ns == NotifierApplication_recv_frame(NotifierState, frame)
           kind == ndispatch(frame)
       IN  /\ Commit(IF kind \in {"goodbye", "error", "malformed"}
                     THEN Ended(ns, kind)
                     ELSE ns)
           /\ nact' = [NStep("NRecv", ndispatch(frame))
                          EXCEPT !.sent = ns.sent]
    /\ UNCHANGED <<pc, nsig, nstart>>

\* a frame of the hub is read: NotifierApplication.recv_frame(frame)
NRecv(i) ==
    /\ NRead(HubFrames[i])
    /\ UNCHANGED <<hubvars, lifecycle, rest>>

\* the transport is closed under the application:
\* NotifierApplication.closed(error)
NClosed ==
    /\ nconn = "open"
    /\ LET ns == NotifierApplication_closed(
                     [NotifierState EXCEPT !.nconn = "closed"])
       IN  /\ Commit(Ended(ns, "closed"))
           /\ nact' = [NStep("NClosed", "") EXCEPT !.sent = ns.sent]
    /\ UNCHANGED <<pc, nframes, nsig, nstart>>
    /\ UNCHANGED <<hubvars, lifecycle, rest>>

\* SIGINT or SIGTERM: NotifierServer.stop(signum, frame)
NSignalStop ==
    /\ nsig < MaxSignals
    /\ nsig' = nsig + 1
    /\ LET ns == NotifierServer_stop(NotifierState, TRUE)
       IN  /\ Commit(ns)
           /\ nact' = [NStep("NSignalStop",
                             IF hub_app = "None" THEN "ignored" ELSE "")
                          EXCEPT !.sent = ns.sent]
    /\ UNCHANGED <<pc, nframes, nstart>>
    /\ UNCHANGED <<hubvars, lifecycle, rest>>

\* SIGUSR1: NotifierServer.shutdown(signum, frame)
NSignalShutdown ==
    /\ nsig < MaxSignals
    /\ nsig' = nsig + 1
    /\ LET ns == NotifierServer_shutdown(NotifierState)
       IN  /\ Commit(ns)
           /\ nact' = [NStep("NSignalShutdown",
                             IF hub_app = "None" THEN "ignored" ELSE "")
                          EXCEPT !.sent = ns.sent]
    /\ UNCHANGED <<pc, nframes, nstart>>
    /\ UNCHANGED <<hubvars, lifecycle, rest>>

\* NotifierServer.next() from its call, or from the return of wait(), to
\* its return, its exit, its StopIteration or its wait()
NNext_waits ==
    /\ pc = "idle"
    /\ IF notifications # <<>>
       THEN LET msg == Head(notifications) IN
            /\ notifications' = Tail(notifications)
            /\ pc' = IF msg.none THEN "exited" ELSE "idle"
            /\ nact' = [NStep("NNext", IF msg.none THEN "exit" ELSE "return")
                           EXCEPT !.item = msg]
            /\ UNCHANGED notify_event
       ELSE /\ notify_event' = FALSE
            /\ pc' = "wait"
            /\ nact' = NStep("NNext", "wait")
            /\ UNCHANGED notifications
    /\ UNCHANGED <<hub_app, manager, nconn, sess, nframes, nsig, nstart>>
    /\ UNCHANGED <<hubvars, lifecycle, rest>>

NNext ==
    /\ pc = "idle"
    /\ IF notifications # <<>>
       THEN LET msg == Head(notifications) IN
            /\ notifications' = Tail(notifications)
            /\ pc' = IF msg.none THEN "exited" ELSE "idle"
            /\ nact' = [NStep("NNext", IF msg.none THEN "exit" ELSE "return")
                           EXCEPT !.item = msg]
            /\ UNCHANGED notify_event
       ELSE /\ notify_event' = FALSE
            /\ pc' = IF hub_app = "None" THEN "stopped" ELSE "wait"
            /\ nact' = NStep("NNext",
                             IF hub_app = "None" THEN "stop" ELSE "wait")
            /\ UNCHANGED notifications
    /\ UNCHANGED <<hub_app, manager, nconn, sess, nframes, nsig, nstart>>
    /\ UNCHANGED <<hubvars, lifecycle, rest>>

\* self._notify_event.wait() returns once the flag is set
NWake ==
    /\ pc = "wait"
    /\ notify_event
    /\ pc' = "idle"
    /\ nact' = NStep("NWake", "")
    /\ UNCHANGED <<hub_app, manager, nconn, notifications, notify_event,
                   sess, nframes, nsig, nstart>>
    /\ UNCHANGED <<hubvars, lifecycle, rest>>

NextNotifier ==
    \/ NIter
    \/ NAccept
    \/ NConnectFails
    \/ \E i \in 1..Len(HubFrames) : NRecv(i)
    \/ NClosed
    \/ NSignalStop
    \/ NSignalShutdown
    \/ NNext
    \/ NWake

SpecNotifier == Init /\ [][NextNotifier]_vars

(***************************************************************************)
(* The notifier under each of its drivers.  The popup driver (heyu/gtk.py) *)
(* iterates over the server inside the loop of backoff(); the stdout, file *)
(* and script drivers (heyu/notifier.py) iterate over it once and return.  *)
(***************************************************************************)
Drivers == {"gtk", "stdout", "file", "script"}

\* the drivers' state
InitDrivers ==
    /\ InitHub
    /\ stopping = 0
    /\ nstop = 0
    /\ InitNotifier
    /\ driver \in Drivers
    /\ params = DefaultParams
    /\ mocked = FALSE
    /\ InitBackoff
    /\ InitCodec
    /\ chan = NoWire

\* "for msg in server" ends in a driver that has no loop around it: the
\* driver returns
NReturn ==
    /\ pc = "stopped"
    /\ driver # "gtk"
    /\ pc' = "returned"
    /\ nact' = NStep("NReturn", "")
    /\ UNCHANGED <<hub_app, manager, nconn, notifications, notify_event,
                   sess, nframes, nsig, nstart>>
    /\ UNCHANGED <<hubvars, lifecycle, rest>>

NextDrivers ==
    \/ NextNotifier
    \/ NReturn

SpecDrivers == InitDrivers /\ [][NextDrivers]_vars

\* the driver's greenlet runs when it can, and a connection attempt ends
SpecDriversFair ==
    /\ SpecDrivers
    /\ WF_vars(NIter)
    /\ WF_vars(NNext)
    /\ WF_vars(NWake)
    /\ WF_vars(NReturn)
    /\ WF_vars(NAccept \/ NConnectFails)

(***************************************************************************)
(* backoff() of heyu/gtk.py.  Time is counted in whole seconds.  The       *)
(* generator is resumed when the body of the driver's loop, a connection   *)
(* attempt and the session that follows it, has ended; it reads the time,  *)
(* sleeps and yields again.  With the real time.time and time.sleep the    *)
(* time a sleep takes has passed when it returns; with the mocks of        *)
(* tests/unit/test_gtk.py time passes only when the test moves it.         *)
(***************************************************************************)
Min(a, b) == IF a < b THEN a ELSE b
Max(a, b) == IF a > b THEN a ELSE b

\* the arguments backoff is called with
ParamSets ==
    {DefaultParams,
     [max_sleep |-> 4, threshold |-> 6, recover |-> 1],
     [max_sleep |-> 4, threshold |-> 2, recover |-> 2],
     [max_sleep |-> 5, threshold |-> 3, recover |-> 50]}

\* the time the body of the loop takes, given the arguments
Durations(p) == {0, 1, p.threshold}

\* next_sleep of backoff, from last_sleep and the elapsed time
next_sleep_uncapped(p, last, elapsed) ==
    IF elapsed < p.threshold
    THEN Max(last * 2, 1)
    ELSE Max(last - (elapsed \div p.recover), 0)

next_sleep_reset(p, last, elapsed) ==
    IF elapsed < p.threshold
    THEN Min(Max(last * 2, 1), p.max_sleep)
    ELSE 0

next_sleep_unfloored(p, last, elapsed) ==
    IF elapsed < p.threshold
    THEN Min(Max(last * 2, 1), p.max_sleep)
    ELSE last - (elapsed \div p.recover)

next_sleep(p, last, elapsed) ==
    IF elapsed < p.threshold
    THEN Min(Max(last * 2, 1), p.max_sleep)
    ELSE Max(last - (elapsed \div p.recover), 0)

\* the first next(): backoff runs up to its first yield
BStart ==
    /\ bpc = "new"
    /\ last_time' = clock
    /\ last_sleep' = 0
    /\ bpc' = "yielded"
    /\ bact' = BStep("BStart")
    /\ UNCHANGED <<params, mocked, clock, turn, driver, cvars, chan>>
    /\ UNCHANGED <<hubvars, lifecycle, nvars>>

\* the body of the loop has taken d seconds and backoff is resumed: it
\* measures the elapsed time, sleeps and yields again
BNext(d) ==
    /\ bpc = "yielded"
    /\ turn < MaxTurns
    /\ turn' = turn + 1
    /\ LET curr_time == clock + d
           elapsed == curr_time - last_time
           next == next_sleep(params, last_sleep, elapsed)
           failed == elapsed < params.threshold
       IN  /\ clock' = IF mocked THEN curr_time ELSE curr_time + next
           /\ last_time' = curr_time
           /\ last_sleep' = next
           /\ bact' = [name |-> "BNext", elapsed |-> elapsed,
                       failed |-> failed, before |-> last_sleep,
                       slept |-> next,
                       failures |-> IF failed THEN bact.failures + 1 ELSE 0,
                       successes |-> IF failed THEN 0
                                     ELSE bact.successes + 1,
                       from |-> IF failed THEN 0
                                ELSE IF bact.successes = 0 THEN last_sleep
                                ELSE bact.from,
                       decays |-> IF failed THEN 0
                                  ELSE IF elapsed >= params.recover
                                  THEN bact.decays + 1
                                  ELSE bact.decays,
                       took |-> d]
    /\ UNCHANGED <<params, mocked, bpc, driver, cvars, chan>>
    /\ UNCHANGED <<hubvars, lifecycle, nvars>>

InitBackoffAny ==
    /\ InitHub
    /\ stopping = 0
    /\ nstop = 0
    /\ InitNotifier
    /\ driver = "gtk"
    /\ params \in ParamSets
    /\ mocked \in BOOLEAN
    /\ InitBackoff
    /\ InitCodec
    /\ chan = NoWire

NextBackoff ==
    \/ BStart
    \/ \E d \in Durations(params) : BNext(d)

SpecBackoff == InitBackoffAny /\ [][NextBackoff]_vars

(***************************************************************************)
(* The codec on its own (heyu/protocol.py): a caller builds Messages with  *)
(* the constructor or with Message.from_frame, and encodes them with       *)
(* to_frame as often as it likes, as HubServer.submit does once per        *)
(* subscriber.  A frame is the msgpack map of a dictionary: two frames are *)
(* equal when msgpack.dumps was handed equal dictionaries.                 *)
(***************************************************************************)
\* the optional arguments of a notify message a caller passes, by name
NotifyOptions ==
    {[k \in K |-> IF k = "urgency" THEN u ELSE c] :
        K \in SUBSET {"urgency", "category"},
        u \in {URGENCY_LOW, URGENCY_CRITICAL},
        c \in {Null}}

\* the arguments a caller passes to Message(msg_type, __version__=version,
\* **args): any of them with the current version, none with another one
InitArgs(msg_type, version) ==
    IF version # curr_version THEN {EmptyDict}
    ELSE CASE msg_type = "notify" ->
                  {NotifyPlain @@ o : o \in NotifyOptions}
                  \cup {[app_name |-> "chat", summary |-> "hi"]}
           [] msg_type = "accepted" -> {[id |-> "my-id"], EmptyDict}
           [] OTHER -> {EmptyDict, [seq |-> "1"], [urgency |-> URGENCY_LOW]}

\* the message types a caller builds: two the protocol knows, one it does
\* not
InitTypes == {"notify", "accepted", "ping"}

\* the frames a peer wrote by hand: a notify without optional arguments,
\* one that carries an optional argument at its default, one that carries
\* them all, a message of an unknown type, a PDU of an unknown version, a
\* notify without its body, a frame that is not a PDU, a map without
\* msg_type, one without __version__, and a message of an unknown type with
\* an argument named __frame__
WireFrames ==
    {wire("notify", 0, NotifyPlain),
     wire("notify", 0, NotifyPlain @@ [urgency |-> URGENCY_LOW]),
     wire("notify", 0, NotifyFull),
     wire("ping", 0, [seq |-> "1"]),
     wire("notify", MaxVersion, NotifyPlain),
     wire("notify", 0, [app_name |-> "chat", summary |-> "hi"]),
     [kind |-> "list", items |-> EmptyDict],
     dumps([__version__ |-> 0]),
     dumps([msg_type |-> "notify"]),
     wire("ping", 0, [seq |-> "1", __frame__ |-> "x"])}

\* the frames to_frame returned so far
Encoded == {o[2] : o \in UNION {outs[s] : s \in Slots}}

\* msg = Message(msg_type, __version__=version, **args) into slot s; the
\* slot keeps what it held when the constructor raises
CInit(s, msg_type, version, args) ==
    LET r == MessageInit(msg_type, args, version, FALSE, dumps(EmptyDict))
    IN  /\ pdus' = IF r.ok THEN [pdus EXCEPT ![s] = r.val] ELSE pdus
        /\ given' = IF r.ok
                     THEN [given EXCEPT ![s] =
                              Given("init", msg_type, version, args,
                                    dumps(EmptyDict))]
                     ELSE given
        /\ outs' = IF r.ok THEN [outs EXCEPT ![s] = {}] ELSE outs
        /\ ndumps' = IF r.ok
                      THEN [ndumps EXCEPT ![s] = [v \in WireVersions |-> 0]]
                      ELSE ndumps
        /\ cact' = [CStep("init", s, version, r.ok, FALSE, FALSE,
                           dumps(EmptyDict))
                        EXCEPT !.msg_type = msg_type, !.args = args]
        /\ UNCHANGED <<driver, bvars, chan>>
        /\ UNCHANGED <<hubvars, lifecycle, nvars>>

\* msg = Message.from_frame(frame) into slot s
CFromFrame(s, frame) ==
    LET r == from_frame(frame)
    IN  /\ pdus' = IF r.ok THEN [pdus EXCEPT ![s] = r.val] ELSE pdus
        /\ given' = IF r.ok
                     THEN [given EXCEPT ![s] =
                              Given("frame", r.val.msg_type, r.val.version,
                                    EmptyDict, frame)]
                     ELSE given
        /\ outs' = IF r.ok THEN [outs EXCEPT ![s] = {}] ELSE outs
        /\ ndumps' = IF r.ok
                      THEN [ndumps EXCEPT ![s] = [v \in WireVersions |-> 0]]
                      ELSE ndumps
        /\ cact' = CStep("from_frame", s, 0, r.ok, FALSE, FALSE, frame)
        /\ UNCHANGED <<driver, bvars, chan>>
        /\ UNCHANGED <<hubvars, lifecycle, nvars>>

\* pdus[s].to_frame(version), as HubServer.submit calls it for a subscriber
\* of that version
CToFrame(s, version) ==
    /\ given[s].how # "none"
    /\ ndumps[s][version] < MaxDumps
    /\ LET r == to_frame(pdus[s], version)
       IN  /\ pdus' = [pdus EXCEPT ![s] = r.msg]
           /\ outs' = IF r.ok
                       THEN [outs EXCEPT ![s] = @ \cup {<<version, r.val>>}]
                       ELSE outs
           /\ ndumps' = IF r.dumped
                         THEN [ndumps EXCEPT ![s][version] = @ + 1]
                         ELSE ndumps
           /\ cact' = CStep("to_frame", s, version, r.ok,
                             version \in DOMAIN pdus[s].frame_cache,
                             r.dumped,
                             IF r.ok THEN r.val ELSE dumps(EmptyDict))
    /\ UNCHANGED given
    /\ UNCHANGED <<driver, bvars, chan>>
    /\ UNCHANGED <<hubvars, lifecycle, nvars>>

InitCodecAny ==
    /\ InitHub
    /\ stopping = 0
    /\ nstop = 0
    /\ InitNotifier
    /\ driver = "gtk"
    /\ params = DefaultParams
    /\ mocked = FALSE
    /\ InitBackoff
    /\ InitCodec
    /\ chan = NoWire

NextCodec ==
    \/ \E s \in Slots, t \in InitTypes, v \in WireVersions :
          \E a \in InitArgs(t, v) : CInit(s, t, v, a)
    \/ \E s \in Slots, f \in WireFrames \cup Encoded : CFromFrame(s, f)
    \/ \E s \in Slots, v \in WireVersions : CToFrame(s, v)

SpecCodec == InitCodecAny /\ [][NextCodec]_vars

(***************************************************************************)
(* HubServer on its own, driven through its methods as a caller would: the *)
(* clients are registered at any version, a client's send_frame raises     *)
(* when its connection is closed, and one call runs at a time.             *)
(***************************************************************************)
\* notifications a caller submits: built messages and a decoded one
Notifs ==
    << Message("notify", NotifyFull),
       Message("notify", NotifyPlain),
       from_frame(wire("notify", 0, NotifyFull)).val >>

InitServer ==
    /\ running = TRUE
    /\ listeners = [e \in Endpoints |-> "started"]
    /\ subscribers \in [ConnIds -> {NoSub} \cup WireVersions]
    /\ tendril \in [ConnIds -> {"open", "closed"}]
    /\ remote_addr = [c \in ConnIds |-> PeerAddr(c)]
    /\ hostname = [c \in ConnIds |-> origin_host(PeerAddr(c), FALSE)]
    /\ persist = [c \in ConnIds |-> subscribers[c] # NoSub]
    /\ fan = [c \in ConnIds |-> IdleFan]
    /\ uuids = 0
    /\ nrecv = 0
    /\ wrote = <<>>
    /\ act = Step("init", 0, "", IdleFan)
    /\ InitOthers

\* server.subscribe(client, version)
CallSubscribe(c, version) ==
    /\ InFanout = {}
    /\ subscribers' = HubServer_subscribe(subscribers, c, version)
    /\ wrote' = <<>>
    /\ act' = Step("CallSubscribe", c, "", IdleFan)
    /\ UNCHANGED <<running, listeners, tendril, remote_addr, hostname,
                   persist, fan, uuids, nrecv>>
    /\ UNCHANGED others
    /\ Wire

\* server.unsubscribe(client)
CallUnsubscribe(c) ==
    /\ InFanout = {}
    /\ subscribers' = HubServer_unsubscribe(subscribers, c)
    /\ wrote' = <<>>
    /\ act' = Step("CallUnsubscribe", c, "", IdleFan)
    /\ UNCHANGED <<running, listeners, tendril, remote_addr, hostname,
                   persist, fan, uuids, nrecv>>
    /\ UNCHANGED others
    /\ Wire

\* server.submit(msg) is entered by caller k: the list of the registry's
\* values
CallSubmit(k, msg) ==
    /\ InFanout = {}
    /\ LET values == Entries IN
       fan' = [fan EXCEPT ![k] =
                  [IdleFan EXCEPT !.phase = "fanout", !.notif = msg,
                                  !.id = getattr(msg, "id"),
                                  !.snapshot = values, !.pending = values]]
    /\ wrote' = <<>>
    /\ act' = Step("CallSubmit", k, "", IdleFan)
    /\ UNCHANGED <<running, listeners, subscribers, tendril, remote_addr,
                   hostname, persist, uuids, nrecv>>
    /\ UNCHANGED others
    /\ Wire

\* server.submit(msg) returns, or the exception it raised reaches the caller
SubmitReturn(k) ==
    /\ fan[k].phase = "fanout"
    /\ fan[k].pending = {} \/ fan[k].raised
    /\ fan' = [fan EXCEPT ![k] = IdleFan]
    /\ wrote' = <<>>
    /\ act' = Step("SubmitReturn", k, "", fan[k])
    /\ UNCHANGED <<running, listeners, subscribers, tendril, remote_addr,
                   hostname, persist, uuids, nrecv>>
    /\ UNCHANGED others
    /\ Wire

NextServer ==
    \/ \E c \in ConnIds, version \in WireVersions : CallSubscribe(c, version)
    \/ \E c \in ConnIds : CallUnsubscribe(c)
    \/ \E k \in ConnIds, i \in 1..Len(Notifs) : CallSubmit(k, Notifs[i])
    \/ \E k \in ConnIds, s \in ConnIds, version \in WireVersions :
          FanoutWrite(k, s, version)
    \/ \E k \in ConnIds : SubmitReturn(k)

SpecServer == InitServer /\ [][NextServer]_vars

\* server.subscribe(client, version) by the handler of another connection
\* while a submit is between two writes
SubscribeMeanwhile(c, version) ==
    /\ InFanout # {}
    /\ subscribers' = HubServer_subscribe(subscribers, c, version)
    /\ wrote' = <<>>
    /\ act' = Step("CallSubscribe", c, "meanwhile", IdleFan)
    /\ UNCHANGED <<running, listeners, tendril, remote_addr, hostname,
                   persist, fan, uuids, nrecv>>
    /\ UNCHANGED others
    /\ Wire

\* server.unsubscribe(client) by the handler of another connection while a
\* submit is between two writes
UnsubscribeMeanwhile(c) ==
    /\ InFanout # {}
    /\ subscribers' = HubServer_unsubscribe(subscribers, c)
    /\ fan' = [k \in ConnIds |->
                  IF fan[k].phase = "fanout"
                  THEN [fan[k] EXCEPT !.left = @ \cup {c}]
                  ELSE fan[k]]
    /\ wrote' = <<>>
    /\ act' = Step("CallUnsubscribe", c, "meanwhile", IdleFan)
    /\ UNCHANGED <<running, listeners, tendril, remote_addr, hostname,
                   persist, uuids, nrecv>>
    /\ UNCHANGED others
    /\ Wire

\* HubServer with its registry changing under a submit in progress; the
\* subscribers are of the current version
NextSnapshot ==
    \/ \E c \in ConnIds : CallSubscribe(c, curr_version)
    \/ \E c \in ConnIds : CallUnsubscribe(c)
    \/ \E k \in ConnIds : CallSubmit(k, Notifs[1])
    \/ \E k \in ConnIds, s \in ConnIds : FanoutWrite(k, s, curr_version)
    \/ \E k \in ConnIds : SubmitReturn(k)
    \/ \E c \in ConnIds : SubscribeMeanwhile(c, curr_version)
    \/ \E c \in ConnIds : UnsubscribeMeanwhile(c)

\* a running hub whose connections are open and none of them subscribed
InitSnapshot ==
    /\ running = TRUE
    /\ listeners = [e \in Endpoints |-> "started"]
    /\ subscribers = [c \in ConnIds |-> NoSub]
    /\ tendril = [c \in ConnIds |-> "open"]
    /\ remote_addr = [c \in ConnIds |-> PeerAddr(c)]
    /\ hostname = [c \in ConnIds |-> origin_host(PeerAddr(c), FALSE)]
    /\ persist = [c \in ConnIds |-> FALSE]
    /\ fan = [c \in ConnIds |-> IdleFan]
    /\ uuids = 0
    /\ nrecv = 0
    /\ wrote = <<>>
    /\ act = Step("init", 0, "", IdleFan)
    /\ InitOthers

SpecSnapshot == InitSnapshot /\ [][NextSnapshot]_vars

(***************************************************************************)
(* The hub and a notifier that is one of its peers: connection             *)
(* NotifierConn of the hub is the notifier's connection, the other         *)
(* connection is a subscriber that submits notifications without an id.    *)
(***************************************************************************)
\* the other peer
Submitter == NotifierConn + 1

\* the place in InFrames of the frames the peers send
PlaceOf(frame) == CHOOSE i \in 1..Len(InFrames) : InFrames[i] = frame
PlainNotify == PlaceOf(wire("notify", 0, NotifyPlain))
SubscribeV0 == PlaceOf(wire("subscribe", 0, EmptyDict))
Goodbye == PlaceOf(wire("goodbye", 0, EmptyDict))

\* the hub reads the subscribe frame NotifierApplication.__init__ wrote
NotifierSubscribes ==
    /\ nconn = "open"
    /\ ~persist[NotifierConn]
    /\ Recv(NotifierConn, SubscribeV0, FALSE)

\* the notifier reads the next frame the hub wrote to its connection
NRecvWire ==
    /\ chan.on
    /\ chan.q # <<>>
    /\ NRead(Head(chan.q))
    /\ chan' = [chan EXCEPT !.q = Tail(@)]
    /\ UNCHANGED <<hubvars, lifecycle, driver, bvars, cvars>>

\* a hub that runs with both connections accepted and the submitter
\* subscribed, and a notifier that has not been started
InitOrder ==
    /\ running = TRUE
    /\ listeners = [e \in Endpoints |-> "started"]
    /\ subscribers = [c \in ConnIds |-> IF c = Submitter THEN 0 ELSE NoSub]
    /\ tendril = [c \in ConnIds |-> "open"]
    /\ remote_addr = [c \in ConnIds |-> PeerAddr(c)]
    /\ hostname = [c \in ConnIds |-> origin_host(PeerAddr(c), FALSE)]
    /\ persist = [c \in ConnIds |-> c = Submitter]
    /\ fan = [c \in ConnIds |-> IdleFan]
    /\ uuids = 0
    /\ nrecv = 0
    /\ wrote = <<>>
    /\ act = Step("init", 0, "", IdleFan)
    /\ stopping = 0
    /\ nstop = 0
    /\ InitNotifier
    /\ driver = "gtk"
    /\ params = DefaultParams
    /\ mocked = FALSE
    /\ InitBackoff
    /\ pdus = [s \in Slots |-> NoMsg]
    /\ given = [s \in Slots |-> NoGiven]
    /\ outs = [s \in Slots |-> {}]
    /\ ndumps = [s \in Slots |-> [v \in WireVersions |-> 0]]
    /\ cact = CStep("init", 0, 0, TRUE, FALSE, FALSE, dumps(EmptyDict))
    /\ chan = [on |-> TRUE, q |-> <<>>]

NextOrder ==
    \/ NIter
    \/ NAccept
    \/ NotifierSubscribes
    \/ Recv(Submitter, PlainNotify, FALSE)
    \/ \E k \in ConnIds, s \in ConnIds, version \in WireVersions :
          FanoutWrite(k, s, version)
    \/ \E k \in ConnIds : NotifyReply(k)
    \/ NRecvWire
    \/ NNext
    \/ NWake

SpecOrder == InitOrder /\ [][NextOrder]_vars

(***************************************************************************)
(* start() called by hand, on the hub or on the notifier: the two are      *)
(* separate programs, and a behaviour exercises one of them.               *)
(***************************************************************************)
\* NotifierServer.start() called directly, whatever the notifier is doing
NStart ==
    /\ IF hub_app # "None"
       THEN /\ nact' = NStep("NStart", "raised")
            /\ UNCHANGED <<nstart, hub_app, manager, nconn, sess>>
       ELSE /\ nstart < MaxStarts
            /\ nstart' = nstart + 1
            /\ hub_app' = "True"
            /\ manager' = "started"
            /\ nconn' = "connecting"
            /\ sess' = [Session(nstart + 1) EXCEPT !.before = sess.ended]
            /\ nact' = NStep("NStart", "start")
    /\ UNCHANGED <<pc, notifications, notify_event, nframes, nsig>>
    /\ UNCHANGED <<hubvars, lifecycle, rest>>

\* the hub has done nothing yet, the notifier has done nothing yet
HubIdle == act.name = "init"
NotifierIdle == nact.name = "init"

NextStart ==
    \/ NotifierIdle /\ Start
    \/ NotifierIdle /\ Stop
    \/ NotifierIdle /\ Shutdown
    \/ NotifierIdle /\ \E c \in ConnIds : Accept(c, PeerAddr(c), TRUE)
    \/ NotifierIdle /\ \E c \in ConnIds : Recv(c, SubscribeV0, FALSE)
    \/ HubIdle /\ NStart
    \/ HubIdle /\ NAccept
    \/ HubIdle /\ NConnectFails
    \/ HubIdle /\ \E i \in 1..Len(HubFrames) : NRecv(i)
    \/ HubIdle /\ NClosed
    \/ HubIdle /\ NSignalStop
    \/ HubIdle /\ NSignalShutdown

SpecStart == Init /\ [][NextStart]_vars

(***************************************************************************)
(* A subscriber that says goodbye, or a hub that stops, while the handler  *)
(* of the submitter is inside submit; the frames written to connection     *)
(* NotifierConn are kept in chan.                                          *)
(***************************************************************************)
NextGoodbye ==
    \/ Recv(NotifierConn, SubscribeV0, FALSE)
    \/ Recv(Submitter, PlainNotify, FALSE)
    \/ Recv(NotifierConn, Goodbye, FALSE)
    \/ \E k \in ConnIds, s \in ConnIds, version \in WireVersions :
          FanoutWrite(k, s, version)
    \/ \E k \in ConnIds : NotifyReply(k)
    \/ StopBegin
    \/ StopEnd

SpecGoodbye == InitOrder /\ [][NextGoodbye]_vars

(***************************************************************************)
(* Properties of HubServer.submit                                          *)
(***************************************************************************)
\* C1: HubServer.submit skips a subscriber whose frame cannot be encoded for
\* its version or cannot be written, writes exactly one frame, encoded for
\* its version, to every other subscriber, does not raise, and leaves the
\* registry as it was, the failing subscribers included.
C1_SubmitSkipsFailures ==
    /\ \A k \in ConnIds :
          fan[k].phase = "fanout" =>
             /\ ~fan[k].raised
             /\ Entries = fan[k].snapshot
             /\ \A p \in fan[k].pending : p[1] \notin fan[k].attempted
             /\ \A p \in fan[k].snapshot \ fan[k].pending :
                   p[1] \in fan[k].delivered
                      <=> (p[2] = curr_version /\ tendril[p[1]] = "open")
    /\ act.name = "FanoutWrite" =>
          LET s == act.target[1]
              version == act.target[2]
          IN  IF s \in fan[act.conn].delivered
              THEN /\ Len(wrote) = 1
                   /\ wrote[1].to = s
                   /\ loads(wrote[1].frame).items["__version__"] = version
                   /\ from_frame(wrote[1].frame).val.args
                         = fan[act.conn].notif.args
              ELSE wrote = <<>>
    /\ act.name = "SubmitReturn" =>
          /\ ~act.f.raised
          /\ Entries = act.f.snapshot
          /\ act.f.attempted = Clients(act.f.snapshot)
          /\ act.f.delivered =
                {s \in Registered :
                    subscribers[s] = curr_version /\ tendril[s] = "open"}

\* a submit returned after it skipped a subscriber and wrote to another
C1_Witness ==
    /\ act.name = "SubmitReturn"
    /\ act.f.delivered # {}
    /\ \E s \in act.f.attempted \ act.f.delivered :
          s \in Registered /\ subscribers[s] # curr_version
    /\ \E s \in act.f.attempted \ act.f.delivered :
          s \in Registered /\ tendril[s] = "closed"

(***************************************************************************)
(* Properties of the hub: registry and connection lifetime                 *)
(***************************************************************************)
\* a fan-out that walked its whole list without raising
FanoutComplete(f) == f.phase = "fanout" /\ f.pending = {} /\ ~f.raised

\* C2: when a fan-out completes, every subscriber of the list it walked
\* received the notify or had its closed() callback run meanwhile (a
\* subscriber that said goodbye meanwhile counts as closed too), and a
\* subscriber that was delivered to is still registered unless it closed or
\* left.
C2_FanoutCompleteness ==
    \A k \in ConnIds :
       FanoutComplete(fan[k]) =>
          /\ \A s \in Clients(fan[k].snapshot) :
                s \in fan[k].delivered \cup fan[k].lost \cup fan[k].left
          /\ \A s \in fan[k].delivered :
                s \in Registered \cup fan[k].lost \cup fan[k].left

\* C3: every entry of the registry belongs to a connection that subscribed
\* successfully and is still open.
C3_RegistryLifetime ==
    \A c \in Registered : tendril[c] = "open" /\ persist[c]

\* C4: a goodbye step and a closed() step leave the connection out of the
\* registry and every other entry as it was (the whole registry when the
\* connection was not registered); a closed connection that is out of the
\* registry stays out, is in the list of no submit that starts later, and
\* every write of a fan-out goes to a member of its list.
C4_GoneAfterGoodbyeOrClosed ==
    [][ /\ \A c \in ConnIds :
             ( /\ act'.conn = c
               /\ \/ act'.name = "Recv" /\ act'.kind = "goodbye"
                  \/ act'.name = "Closed" )
             => /\ subscribers'[c] = NoSub
                /\ tendril'[c] = "closed"
                /\ \A d \in ConnIds \ {c} : subscribers'[d] = subscribers[d]
                /\ subscribers[c] = NoSub => subscribers' = subscribers
        /\ \A c \in ConnIds :
             (tendril[c] = "closed" /\ subscribers[c] = NoSub)
             => /\ subscribers'[c] = NoSub
                /\ tendril'[c] = "closed"
                /\ \A k \in ConnIds :
                      fan[k].phase = "idle" =>
                         c \notin Clients(fan'[k].snapshot)
        /\ act'.name = "FanoutWrite" =>
             /\ act'.target \in fan[act'.conn].snapshot
             /\ \A i \in 1..Len(wrote') : wrote'[i].to = act'.target[1]
      ]_vars

\* a subscribed connection is gone from the registry after it closed, and a
\* notify read later is being written to the subscriber that remains
C4_Witness ==
    /\ act.name = "FanoutWrite"
    /\ Len(wrote) = 1
    /\ \E c \in ConnIds :
          /\ persist[c]
          /\ tendril[c] = "closed"
          /\ subscribers[c] = NoSub
          /\ c \notin Clients(fan[act.conn].snapshot)

\* C5: a connection that is not persistent is closed by the hub at the end
\* of the handling of a goodbye, an unknown or malformed frame, a subscribe
\* whose registration raises, and a notify; persist is set by a successful
\* subscribe only, which registers the connection at the version of the
\* frame, replies subscribed and leaves the connection open.
C5_PersistentOnlyBySubscribe ==
    [][ \A c \in ConnIds :
          /\ ( /\ act'.name = "Recv" /\ act'.conn = c
               /\ ~persist[c]
               /\ act'.kind \in {"goodbye", "unknown", "malformed",
                                 "subscribe-raised"} )
             => /\ tendril'[c] = "closed"
                /\ ~persist'[c]
                /\ subscribers'[c] = NoSub
          /\ ( /\ act'.name = "Recv" /\ act'.conn = c
               /\ ~persist[c]
               /\ act'.kind = "notify" )
             => /\ fan'[c].phase = "fanout"
                /\ ~persist'[c]
          /\ (act'.name = "NotifyReply" /\ act'.conn = c /\ ~persist[c])
             => tendril'[c] = "closed" /\ ~persist'[c]
          /\ (fan[c].phase = "fanout" /\ fan'[c].phase = "idle")
             => act'.name = "NotifyReply" /\ act'.conn = c
          /\ (persist'[c] /\ ~persist[c])
             => act'.name = "Recv" /\ act'.conn = c /\ act'.kind = "subscribe"
          /\ (act'.name = "Recv" /\ act'.conn = c /\ act'.kind = "subscribe")
             => /\ persist'[c]
                /\ subscribers'[c]
                      = loads(InFrames[act'.frame]).items["__version__"]
                /\ \A d \in ConnIds \ {c} : subscribers'[d] = subscribers[d]
                /\ tendril'[c] = "open"
                /\ wrote' = Written(c, frame_of(Message("subscribed",
                                                        EmptyDict)))
      ]_vars

\* a first frame that is a subscribe made the connection persistent
C5_Witness ==
    /\ act.name = "Recv"
    /\ act.kind = "subscribe"
    /\ persist[act.conn]
    /\ subscribers[act.conn] = curr_version
    /\ tendril[act.conn] = "open"
    /\ \E d \in ConnIds : d # act.conn /\ tendril[d] = "closed" /\ ~persist[d]

(***************************************************************************)
(* Properties of the hub: frames on a persistent connection, notify        *)
(***************************************************************************)
\* the message a written frame decodes to
Decoded(w) == from_frame(w.frame).val

C7_ReplyAfterFanout ==
    /\ \A k \in ConnIds :
          fan[k].phase = "fanout" =>
             /\ getattr(fan[k].notif, "id") = fan[k].id
             /\ fan[k].pending \subseteq fan[k].snapshot
             /\ fan[k].attempted = Clients(fan[k].snapshot \ fan[k].pending)
    /\ (act.name = "Recv" /\ act.kind = "notify") =>
          /\ wrote = <<>>
          /\ fan[act.conn].snapshot = Entries
          /\ fan[act.conn].pending = Entries
    /\ act.name = "FanoutWrite" =>
          \A i \in 1..Len(wrote) :
             /\ Decoded(wrote[i]).msg_type = "notify"
             /\ getattr(Decoded(wrote[i]), "id") = fan[act.conn].id
    /\ act.name = "NotifyReply" =>
          /\ Len(wrote) = 1
          /\ wrote[1].to = act.conn
          /\ IF act.f.raised
             THEN Decoded(wrote[1]).msg_type = "error"
             ELSE /\ act.f.pending = {}
                  /\ act.f.attempted = Clients(act.f.snapshot)
                  /\ Decoded(wrote[1]).msg_type = "accepted"
                  /\ getattr(Decoded(wrote[1]), "id")
                        = getattr(act.f.notif, "id")

\* a notify was accepted after it was written to a subscriber
C7_Witness ==
    /\ act.name = "NotifyReply"
    /\ ~act.f.raised
    /\ act.f.delivered # {}
    /\ Decoded(wrote[1]).msg_type = "accepted"

\* C8 (as stated): when submit raised, the handler writes one error frame
\* with a reason to the submitter and the connection is closed, persistent
\* or not.
C8_ErrorReplyCloses ==
    (act.name = "NotifyReply" /\ act.f.raised) =>
       /\ Len(wrote) = 1
       /\ wrote[1].to = act.conn
       /\ Decoded(wrote[1]).msg_type = "error"
       /\ "reason" \in DOMAIN Decoded(wrote[1]).args
       /\ tendril[act.conn] = "closed"

\* C8 (amended): when submit raised, the handler writes one error frame
\* with a reason to the submitter, never accepted, and the connection is
\* closed exactly when it is not persistent.
C8_ErrorReplyClosesUnlessPersistent ==
    (act.name = "NotifyReply" /\ act.f.raised) =>
       /\ Len(wrote) = 1
       /\ wrote[1].to = act.conn
       /\ Decoded(wrote[1]).msg_type = "error"
       /\ "reason" \in DOMAIN Decoded(wrote[1]).args
       /\ tendril[act.conn] = "closed" <=> ~persist[act.conn]

\* submit raised for a notify of a persistent connection, which is open
\* after the error reply
C8_Witness ==
    /\ act.name = "NotifyReply"
    /\ act.f.raised
    /\ persist[act.conn]
    /\ tendril[act.conn] = "open"
    /\ Decoded(wrote[1]).msg_type = "error"

\* C9: a notify that carries an id other than None is fanned out and
\* accepted with that id; for a notify without an id the hub mints one,
\* which is not None and is the id of no earlier mint.
C9_IdAssignment ==
    /\ \A k \in ConnIds :
          fan[k].phase = "fanout" =>
             LET id == getattr(fan[k].msg, "id") IN
             /\ getattr(fan[k].notif, "id") = fan[k].id
             /\ id # Null => fan[k].id = id
             /\ id = Null =>
                   /\ fan[k].id # Null
                   /\ fan[k].id \notin {uuid4(n) : n \in 0..(uuids - 1)}
    /\ act.name = "FanoutWrite" =>
          \A i \in 1..Len(wrote) :
             LET id == getattr(fan[act.conn].msg, "id") IN
             id # Null => getattr(Decoded(wrote[i]), "id") = id
    /\ (act.name = "NotifyReply" /\ ~act.f.raised) =>
          LET id == getattr(act.f.msg, "id") IN
          id # Null => getattr(Decoded(wrote[1]), "id") = id

\* the loopback addresses of HubApplication.__init__
Loopback == {"127.0.0.1", "::1"}

\* out is msg with the origin host put before its app_name
Rewritten(msg, out, host) ==
    /\ getattr(out, "app_name") = "[" \o host \o "]" \o getattr(msg, "app_name")
    /\ \A n \in {"summary", "body", "urgency", "category"} :
          getattr(out, n) = getattr(msg, n)

\* C10: the origin host of a connection is the hub's FQDN iff the peer
\* address is a loopback address, otherwise the name the peer address
\* resolves to, and the address itself when the lookup fails; the notify
\* the hub builds, and every frame it fans out, has the app_name of the
\* incoming notify behind "[" host "]" and its summary, body, urgency and
\* category.
C10_OriginRewrite ==
    /\ act.name = "Accept" =>
          LET addr == remote_addr[act.conn]
              host == hostname[act.conn]
          IN  /\ addr \in Loopback => host = getfqdn
              /\ (addr \notin Loopback /\ act.kind = "resolves")
                    => host = getnameinfo(addr)
              /\ (addr \notin Loopback /\ act.kind = "fails") => host = addr
    /\ \A c \in ConnIds :
          tendril[c] # "none" =>
             /\ hostname[c] = getfqdn <=> remote_addr[c] \in Loopback
             /\ hostname[c] \in {getfqdn, getnameinfo(remote_addr[c]),
                                 remote_addr[c]}
    /\ \A k \in ConnIds :
          fan[k].phase = "fanout" =>
             Rewritten(fan[k].msg, fan[k].notif, hostname[k])
    /\ act.name = "FanoutWrite" =>
          \A i \in 1..Len(wrote) :
             Rewritten(fan[act.conn].msg, Decoded(wrote[i]),
                       hostname[act.conn])

\* a notify from the IPv6 loopback address is written to a subscriber
\* whose own address did not resolve
C10_Witness ==
    /\ act.name = "FanoutWrite"
    /\ Len(wrote) = 1
    /\ remote_addr[act.conn] = "::1"
    /\ getattr(Decoded(wrote[1]), "app_name")
          = "[" \o getfqdn \o "]" \o getattr(fan[act.conn].msg, "app_name")
    /\ hostname[wrote[1].to] = remote_addr[wrote[1].to]

(***************************************************************************)
(* Properties of the hub: frames that do not decode                        *)
(***************************************************************************)
\* the step read a frame whose unpacked object is not a map
ReadNotAMap(a) == a.name = "Recv" /\ ~isdict(loads(InFrames[a.frame]))

\* what a step that answers connection c with error{reason} and closes it
\* does: one frame, no notify, subscribe or disconnect handling, the other
\* connections as they were
ErrorAndClose(c, reason) ==
    /\ wrote' = Written(c, frame_of(Message("error", [reason |-> reason])))
    /\ tendril'[c] = "closed"
    /\ fan' = fan
    /\ subscribers' = subscribers
    /\ persist' = persist
    /\ uuids' = uuids
    /\ \A d \in ConnIds \ {c} : tendril'[d] = tendril[d]

\* C11 (as stated): a frame that unpacks to something other than a map is
\* answered with error, reason "invalid PDU", the connection is closed, no
\* handler is dispatched and the other connections are left as they were.
C11_DecodeFailure ==
    [][ReadNotAMap(act') => ErrorAndClose(act'.conn, "invalid PDU")]_vars

\* C11 (amended): as above, the reason being "Failed to decode message: "
\* followed by "invalid PDU".
C11_DecodeFailurePrefixed ==
    [][ReadNotAMap(act')
          => ErrorAndClose(act'.conn,
                           "Failed to decode message: invalid PDU")]_vars

\* a frame that is not a map was answered while another connection is
\* subscribed and open
C11_Witness ==
    /\ ReadNotAMap(act)
    /\ tendril[act.conn] = "closed"
    /\ Len(wrote) = 1
    /\ \E d \in Registered : d # act.conn /\ tendril[d] = "open"

(***************************************************************************)
(* Properties of the hub: stop and shutdown                                *)
(***************************************************************************)
\* the frames a step wrote to connection c
WroteTo(c) == {i \in 1..Len(wrote') : wrote'[i].to = c}

\* C12: a stop call stops the managers only if no earlier stop has stopped
\* them, sequentially or while that stop is in progress; the stop calls
\* together write at most one goodbye to a connection and close only
\* registered connections; a stop or shutdown call on a server that is not
\* running touches no manager and leaves the registry as it is.
C12_StopIdempotent ==
    [][ /\ (act'.name = "StopBegin" /\ act'.kind = "") =>
              /\ stopping = 0
              /\ \A e \in Endpoints : listeners[e] = "started"
        /\ act'.name = "StopEnd" =>
              \A c \in ConnIds :
                 /\ Cardinality(WroteTo(c)) <= 1
                 /\ WroteTo(c) # {} => c \in Registered /\ tendril[c] = "open"
                 /\ tendril'[c] # tendril[c] => c \in Registered
        /\ (act'.name \in {"StopBegin", "Shutdown"} /\ ~running) =>
              /\ listeners' = listeners
              /\ subscribers' = subscribers
              /\ tendril' = tendril
              /\ wrote' = <<>>
      ]_vars

\* C13: a shutdown call made after a stop call stopped the managers shuts
\* the managers down, and no connection is open after it.
C13_StopThenShutdown ==
    [][ ( /\ act'.name = "Shutdown"
          /\ \A e \in Endpoints : listeners[e] = "stopped" )
        => /\ \A e \in Endpoints : listeners'[e] = "shutdown"
           /\ \A c \in ConnIds : tendril'[c] # "open"
      ]_vars

\* C14: a stop call on a running server stops every manager, disconnects
\* each registered client once (the client is unsubscribed, a goodbye is
\* written to it if its connection is open and to no one else, and its
\* connection is closed), leaves the other connections alone and ends with
\* the server not running and the registry empty.
C14_StopDisconnectsSubscribers ==
    [][ (act'.name = "Stop" /\ running) =>
          /\ \A e \in Endpoints : listeners'[e] = "stopped"
          /\ \A c \in Registered :
                /\ subscribers'[c] = NoSub
                /\ tendril'[c] = "closed"
                /\ Cardinality(WroteTo(c))
                      = IF tendril[c] = "open" THEN 1 ELSE 0
          /\ \A c \in ConnIds \ Registered :
                WroteTo(c) = {} /\ tendril'[c] = tendril[c]
          /\ \A i \in 1..Len(wrote') :
                Decoded(wrote'[i]).msg_type = "goodbye"
          /\ ~running'
          /\ \A c \in ConnIds : subscribers'[c] = NoSub
      ]_vars

\* a stop said goodbye to a subscriber and left an open connection that
\* never subscribed
C14_Witness ==
    /\ act.name = "Stop"
    /\ act.kind = ""
    /\ Len(wrote) >= 1
    /\ \E c \in ConnIds : persist[c] /\ tendril[c] = "closed"
    /\ \E c \in ConnIds : ~persist[c] /\ tendril[c] = "open"

\* C15: a shutdown call on a running server shuts every manager down,
\* writes no frame, and ends with the registry empty and the server not
\* running; from then until the next start the registry stays empty and
\* nothing is written.
C15_ShutdownDropsAll ==
    [][ /\ (act'.name = "Shutdown" /\ running) =>
              /\ \A e \in Endpoints : listeners'[e] = "shutdown"
              /\ wrote' = <<>>
              /\ \A c \in ConnIds : subscribers'[c] = NoSub
              /\ \A c \in ConnIds : tendril'[c] # "open"
              /\ ~running'
        /\ ( /\ \A e \in Endpoints : listeners[e] = "shutdown"
             /\ act'.name # "Start" )
           => /\ \A c \in ConnIds : subscribers'[c] = NoSub
              /\ wrote' = <<>>
              /\ ~running'
      ]_vars

\* a shutdown dropped a subscriber without a goodbye
C15_Witness ==
    /\ act.name = "Shutdown"
    /\ act.kind = ""
    /\ wrote = <<>>
    /\ \E c \in ConnIds :
          persist[c] /\ tendril[c] = "closed" /\ subscribers[c] = NoSub

(***************************************************************************)
(* Properties of the notifier: signals                                     *)
(***************************************************************************)
\* the entries of a queue
Queued(q) == {q[i] : i \in 1..Len(q)}

\* the last step was the handler of the first SIGINT or SIGTERM, delivered
\* to a notifier that had been started and whose driver has neither exited
\* nor failed
SignalledStop ==
    /\ nsig = 0
    /\ nsig' = 1
    /\ nact'.name = "NSignalStop"
    /\ nstart > 0
    /\ pc \notin {"exited", "raised"}

\* C16: whenever SIGINT or SIGTERM is delivered to a notifier, be it
\* connecting, subscribed or disconnected between two connection attempts,
\* the sentinel is appended to the queue behind every notification already
\* queued and the event is set
C16_GracefulCancel ==
    [][SignalledStop =>
          /\ notifications' = Append(notifications, Sentinel)
          /\ notify_event']_vars

\* the last step was NotifierServer.shutdown on a running notifier
ShutdownRunning ==
    /\ nsig' = nsig + 1
    /\ nact'.name = "NSignalShutdown"
    /\ hub_app # "None"

\* the last step was a call of next() that found the sentinel first
NextAtSentinel ==
    /\ pc = "idle"
    /\ pc' # "idle"
    /\ notifications # <<>>
    /\ Head(notifications) = Sentinel

\* C17: NotifierServer.shutdown on a running notifier drops the hub
\* connection without a goodbye, leaves the sentinel as the only entry of
\* the queue and sets the event; the sentinel stays first until the
\* consumer's next step, and that step ends the stream yielding nothing
C17_ShutdownDiscards ==
    [][/\ ShutdownRunning =>
              /\ nact'.sent = <<>>
              /\ nconn' # "open"
              /\ hub_app' = "None"
              /\ notifications' = <<Sentinel>>
              /\ notify_event'
       /\ NextAtSentinel =>
              /\ pc' = "exited"
              /\ nact'.kind = "exit"
              /\ nact'.item = Sentinel
       /\ (notifications # <<>> /\ Head(notifications) = Sentinel
              /\ ~NextAtSentinel) =>
              /\ notifications' # <<>>
              /\ Head(notifications') = Sentinel
              /\ (pc = "wait" => notify_event')]_vars

\* a shutdown dropped the open connection and the driver's next step ended
\* the stream
C17_Witness ==
    /\ manager = "shutdown"
    /\ nconn = "closed"
    /\ sess.goodbyes = 0
    /\ pc = "exited"
    /\ nact.name = "NNext"
    /\ notifications = <<>>

(***************************************************************************)
(* Properties of the notifier: the queue of notifications                  *)
(***************************************************************************)
\* the driver is not blocked in wait() while the queue holds an entry
NoLostWakeup ==
    (pc = "wait" /\ notifications # <<>>) => notify_event

\* q is p with entries appended
Extends(q, p) ==
    /\ Len(q) >= Len(p)
    /\ SubSeq(q, 1, Len(p)) = p

\* a step changes the queue by appending, by next() taking and returning
\* the first entry, or by a shutdown
FifoStep ==
    \/ Extends(notifications', notifications)
    \/ /\ pc = "idle"
       /\ notifications # <<>>
       /\ notifications' = Tail(notifications)
       /\ nact'.name = "NNext"
       /\ nact'.item = Head(notifications)
    \/ /\ nact'.name = "NSignalShutdown"
       /\ notifications' = <<Sentinel>>

\* the notifications still queued
Pending == {x \in Queued(notifications) : ~x.none}

IsEvent(x, cat) ==
    /\ ~x.none
    /\ x.msg.msg_type = "notify"
    /\ getattr(x.msg, "id") = notifier_app_id
    /\ getattr(x.msg, "category") = cat

\* the places of the queue q that hold an entry of session n
OfSession(q, n) == {i \in 1..Len(q) : ~q[i].none /\ q[i].session = n}

\* the last step read the hub's goodbye, or was closed() on a connection
\* the transport closed
SessionEnded ==
    \/ nframes' = nframes + 1 /\ nact'.kind = "goodbye"
    \/ nconn = "open" /\ nconn' = "closed" /\ nact'.name = "NClosed"

\* C19: when the hub's goodbye or the closing of the transport ends a
\* session, one DISCONNECTED event is appended to the queue, the only one
\* of the session; no entry of the session is queued after it, so that it
\* is yielded after every notify of the session
C19_DisconnectedLast ==
    [][/\ SessionEnded =>
              /\ sess'.disconnected = 1
              /\ Len(notifications') = Len(notifications) + 1
              /\ Extends(notifications', notifications)
              /\ IsEvent(notifications'[Len(notifications')], DISCONNECTED)
              /\ notifications'[Len(notifications')].session = sess.n
       /\ sess'.disconnected <= 1
       /\ (sess.disconnected = 1 /\ sess'.n = sess.n) =>
              Cardinality(OfSession(notifications', sess.n))
                  <= Cardinality(OfSession(notifications, sess.n))
       /\ (nact'.name = "NNext" /\ IsEvent(nact'.item, DISCONNECTED)) =>
              OfSession(notifications', nact'.item.session) = {}]_vars

\* the hub's goodbye ended a session that had queued a notify: the queue
\* holds the notify and, behind it, the DISCONNECTED event
C19_Witness ==
    /\ nact.name = "NRecv"
    /\ nact.kind = "goodbye"
    /\ sess.disconnected = 1
    /\ Len(notifications) >= 2
    /\ IsEvent(notifications[Len(notifications)], DISCONNECTED)
    /\ \E i \in OfSession(notifications, sess.n) :
          getattr(notifications[i].msg, "id") # notifier_app_id

\* the reason of the error frame the hub sends
HubReason == loads(HubFrames[4]).items["reason"]

\* x is the ERROR event that reports the hub's error
IsHubError(x) ==
    /\ IsEvent(x, ERROR)
    /\ getattr(x.msg, "summary") = "Communication Error"
    /\ getattr(x.msg, "body") =
           "An error occurred communicating with the HeyU hub: " \o HubReason

\* the last step read an error frame of the hub
ReadHubError ==
    /\ nframes' = nframes + 1
    /\ nact'.kind = "error"

\* C20: when the hub sends an error with a reason, one ERROR event that
\* carries the reason is appended to the queue, the connection is closed
\* and the server stopped, and no DISCONNECTED event is queued, neither by
\* that step nor later in the session
C20_HubErrorEndsSession ==
    [][/\ ReadHubError =>
              /\ Len(notifications') = Len(notifications) + 1
              /\ Extends(notifications', notifications)
              /\ IsHubError(notifications'[Len(notifications')])
              /\ sess'.error = sess.error + 1
              /\ sess'.disconnected = sess.disconnected
              /\ nconn' = "closed"
              /\ manager' = "stopped"
              /\ hub_app' = "None"
       /\ (nconn = "closed" /\ sess'.n = sess.n) =>
              /\ sess'.disconnected = sess.disconnected
              /\ sess'.error = sess.error]_vars

\* the hub's error ended the session: the ERROR event is the last entry of
\* the queue and the connection is closed
C20_Witness ==
    /\ nact.name = "NRecv"
    /\ nact.kind = "error"
    /\ notifications # <<>>
    /\ IsHubError(notifications[Len(notifications)])
    /\ sess.disconnected = 0
    /\ nconn = "closed"
    /\ hub_app = "None"

(***************************************************************************)
(* Properties of the notifier: reconnection                                *)
(***************************************************************************)
\* the session ended because of a frame that does not parse or because the
\* transport was closed
EndedByFailure == sess.ended \in {"malformed", "closed"}

\* C21: after a session has ended because of a malformed frame or a
\* transport failure the notifier starts a new connection attempt instead
\* of terminating, whatever its driver: the driver does not return
C21_EveryDriverReconnects ==
    EndedByFailure => pc # "returned"

\* C21, for the popup driver: when session n has ended because of a
\* malformed frame or because the transport was closed, and no signal has
\* queued the sentinel, the driver starts the server again
C21_PopupReconnects ==
    \A n \in 1..(MaxStarts - 1) :
        (/\ driver = "gtk"
         /\ sess.n = n
         /\ EndedByFailure
         /\ pc \notin {"exited", "raised"}
         /\ Sentinel \notin Queued(notifications))
            ~> (nstart > n)

\* the popup driver has started the server again after a session that a
\* malformed frame ended
C21_Witness ==
    /\ driver = "gtk"
    /\ nact.name = "NIter"
    /\ nact.kind = "start"
    /\ sess.n = 2
    /\ sess.before = "malformed"
    /\ nconn = "connecting"

(***************************************************************************)
(* Properties of the notifier: frames of an unknown type                   *)
(***************************************************************************)
\* the frame of an unknown type the hub sends, and its type
UnknownFrame == HubFrames[5]
UnknownType == loads(UnknownFrame).items["msg_type"]

\* x is the ERROR event that reports a message of an unknown type
IsUnknownError(x) ==
    /\ IsEvent(x, ERROR)
    /\ getattr(x.msg, "summary") = "Unknown Server Message"
    /\ getattr(x.msg, "body") =
           "An unrecognized server message of type \"" \o UnknownType
               \o "\" was received."

\* C22: on a frame of an unknown type the notifier queues one ERROR event
\* that names the type and goes on: the connection stays open, the server
\* is not stopped and no goodbye is sent; a notify read later on the
\* connection is queued
C22_UnknownTypeContinues ==
    [][/\ (nframes' = nframes + 1 /\ nact'.kind = "unknown") =>
              /\ Len(notifications') = Len(notifications) + 1
              /\ Extends(notifications', notifications)
              /\ IsUnknownError(notifications'[Len(notifications')])
              /\ nconn' = "open"
              /\ hub_app' = hub_app
              /\ manager' = manager
              /\ nact'.sent = <<>>
              /\ sess'.goodbyes = sess.goodbyes
              /\ sess'.ended = sess.ended
       /\ (nframes' = nframes + 1 /\ nact'.kind = "notify") =>
              /\ notifications' =
                     Append(notifications,
                            Item(from_frame(HubFrames[1]).val, sess.n))
              /\ notify_event']_vars

\* a notify was read after a frame of an unknown type: the queue holds the
\* ERROR event and the notify behind it, and the connection is open
C22_Witness ==
    /\ nact.name = "NRecv"
    /\ nact.kind = "notify"
    /\ nconn = "open"
    /\ Len(notifications) >= 2
    /\ IsUnknownError(notifications[Len(notifications) - 1])
    /\ notifications[Len(notifications)] =
           Item(from_frame(HubFrames[1]).val, sess.n)

(***************************************************************************)
(* Properties of backoff                                                   *)
(***************************************************************************)
\* C23: the first attempt is made without sleeping; after an attempt with
\* elapsed < threshold the next sleep is min(max_sleep, max(1, 2 * the sleep
\* before)), which is not less than the sleep before; while every attempt
\* has failed the i-th sleep is min(max_sleep, 2^(i-1)), so that the sleeps
\* reach max_sleep and stay there
C23_FailureRule ==
    /\ (bpc = "yielded" /\ turn = 0) =>
           (bact.slept = 0 /\ clock = 0 /\ last_sleep = 0)
    /\ (bact.name = "BNext" /\ bact.failed) =>
           /\ bact.slept =
                  Min(params.max_sleep, Max(1, 2 * bact.before))
           /\ bact.slept >= bact.before
           /\ last_sleep = bact.slept
    /\ (turn >= 1 /\ bact.failures = turn) =>
           bact.slept = Min(params.max_sleep, 2 ^ (turn - 1))

\* with the defaults and every attempt failed, the eleventh sleep is the
\* second of 300 seconds: 0, 1, 2, 4, 8, 16, 32, 64, 128, 256, 300, 300
C23_Witness ==
    /\ params = DefaultParams
    /\ turn = 11
    /\ bact.failures = 11
    /\ bact.before = 300
    /\ bact.slept = 300

\* C24: after an attempt with elapsed >= threshold the next sleep is
\* max(0, the sleep before - floor(elapsed / recover)), which is neither
\* larger than the sleep before nor negative; the sleep becomes smaller by
\* this rule only, and backoff keeps the sleep it chose until its next turn
C24_SuccessRule ==
    /\ (bact.name = "BNext" /\ ~bact.failed) =>
           /\ bact.slept =
                  Max(0, bact.before - (bact.elapsed \div params.recover))
           /\ bact.slept <= bact.before
           /\ bact.slept >= 0
    /\ (bact.name = "BNext" /\ bact.slept < bact.before) =>
           /\ ~bact.failed
           /\ bact.elapsed >= params.threshold
           /\ bact.before - bact.slept <= bact.elapsed \div params.recover
    /\ last_sleep = bact.slept

\* with the defaults, two attempts of 30 seconds after the sleep had
\* reached 300 seconds: the sleeps are 294 and 288 seconds
C24_Witness ==
    /\ params = DefaultParams
    /\ bact.from = 300
    /\ bact.successes = 2
    /\ bact.elapsed = 30
    /\ bact.before = 294
    /\ bact.slept = 288

\* the last turn of backoff took the attempt for a success
Succeeded == bact.name = "BNext" /\ ~bact.failed

\* C25: whatever the arguments and the sleep reached, while the attempts
\* succeed the sleep does not grow and comes down to 0 after finitely many
\* of them: a success makes a sleep that is not 0 smaller
C25_SuccessReachesZero ==
    Succeeded =>
        /\ bact.slept <= bact.before
        /\ bact.before > 0 => bact.slept < bact.before

\* C25, with recover > 0: while the attempts succeed the sleep does not
\* grow and is not negative; an attempt that lasted recover seconds or more
\* makes a sleep that is not 0 smaller, a shorter one leaves it as it is,
\* so that the sleep is 0 once as many attempts of the first kind have
\* succeeded in a row as the sleep had seconds
C25_SuccessDecays ==
    Succeeded =>
        /\ bact.slept <= bact.before
        /\ bact.slept >= 0
        /\ (bact.before > 0 /\ bact.elapsed >= params.recover) =>
               bact.slept < bact.before
        /\ bact.elapsed < params.recover => bact.slept = bact.before
        /\ bact.slept <= Max(0, bact.from - bact.decays)

\* four successes in a row, of recover seconds or more each, have brought
\* a sleep of 4 seconds down to 0
C25_Witness ==
    /\ Succeeded
    /\ bact.from = 4
    /\ bact.decays = 4
    /\ bact.successes = 4
    /\ bact.before = 1
    /\ bact.slept = 0

\* C26: the threshold is compared with the time the connection itself
\* lasted, the sleep before the attempt not counted: a connection that
\* lasted less than threshold seconds is taken for a failure, however long
\* the sleep before it was
C26_ThresholdOnLifetime ==
    (bact.name = "BNext" /\ bact.took < params.threshold) => bact.failed

\* the Message of slot s was built by the constructor
Constructed(s) == given[s].how = "init"

\* the Message of slot s was decoded from a frame that to_frame returned
\* for the Message of slot t
DecodedFrom(s, t) ==
    /\ given[s].how = "frame"
    /\ \E o \in outs[t] : o[2] = given[s].frame

\* the names of the arguments a Message built from g has: those passed and
\* those its type declares a default for
ArgNames(g) ==
    DOMAIN g.args \cup DOMAIN defaults(g.version, g.msg_type)

\* the value of argument k of a Message built from g
ArgValue(g, k) ==
    IF k \in DOMAIN g.args THEN g.args[k]
    ELSE defaults(g.version, g.msg_type)[k]

\* C27: a frame that to_frame returned for a constructed Message decodes,
\* and the decoded Message has the version, the type and the argument values
\* of the constructed one, those left to their defaults included, and no
\* other argument
C27_RoundTrip ==
    /\ (cact.name = "from_frame"
            /\ \E t \in Slots : Constructed(t)
                   /\ \E o \in outs[t] : o[2] = cact.frame)
           => cact.ok
    /\ \A s, t \in Slots :
          (Constructed(t) /\ DecodedFrom(s, t)) =>
              /\ pdus[s].version = given[t].version
              /\ pdus[s].version = pdus[t].version
              /\ pdus[s].msg_type = given[t].msg_type
              /\ pdus[s].msg_type = pdus[t].msg_type
              /\ DOMAIN pdus[s].args \subseteq DOMAIN given[t].args
              /\ \A k \in ArgNames(given[t]) :
                    /\ getattr(pdus[s], k) = ArgValue(given[t], k)
                    /\ getattr(pdus[s], k) = getattr(pdus[t], k)

\* a notify built with a critical urgency and its category passed as None,
\* encoded and decoded again from that frame; and the same for a message of
\* an unknown type
C27_Witness ==
    /\ cact.name = "from_frame"
    /\ cact.ok
    /\ Constructed(1)
    /\ DecodedFrom(2, 1)
    /\ given[1].msg_type = "notify"
    /\ given[1].args =
          NotifyPlain @@ [urgency |-> URGENCY_CRITICAL, category |-> Null]
    /\ pdus[2].args = NotifyPlain @@ [urgency |-> URGENCY_CRITICAL]

\* C28: to_frame returns the cached frame of a version whenever there is
\* one, without calling msgpack.dumps; every frame it returned for a Message
\* is the one cached for that version, so that all subscribers of one
\* version are handed the same frame; a decoded Message holds the frame it
\* was decoded from at its own version and is never serialised at that
\* version; no Message is serialised more than once for a version
C28_FrameCache ==
    /\ (cact.name = "to_frame" /\ cact.hit) =>
           /\ cact.ok
           /\ ~cact.dumped
           /\ cact.frame = pdus[cact.slot].frame_cache[cact.version]
    /\ \A s \in Slots :
          /\ \A o \in outs[s] :
                /\ o[1] \in DOMAIN pdus[s].frame_cache
                /\ o[2] = pdus[s].frame_cache[o[1]]
          /\ given[s].how = "frame" =>
                /\ pdus[s].version \in DOMAIN pdus[s].frame_cache
                /\ pdus[s].frame_cache[pdus[s].version] = given[s].frame
                /\ ndumps[s][pdus[s].version] = 0
          /\ \A v \in WireVersions : ndumps[s][v] <= 1

\* a constructed Message has been encoded a second time, from the cache,
\* after one call of msgpack.dumps, and a Message decoded from a frame of a
\* peer has returned that frame
C28_Witness ==
    /\ cact.name = "to_frame"
    /\ cact.hit
    /\ cact.slot = 1
    /\ Constructed(1)
    /\ ndumps[1][curr_version] = 1
    /\ given[2].how = "frame"
    /\ given[2].frame = wire("notify", 0, NotifyFull)
    /\ <<0, given[2].frame>> \in outs[2]
    /\ ndumps[2][curr_version] = 0

\* g and h are the arguments of two calls of the constructor that differ
\* only in that h passes, at their declared defaults, arguments g leaves out
DefaultsSpelledOut(g, h) ==
    /\ g.how = "init"
    /\ h.how = "init"
    /\ g.msg_type = h.msg_type
    /\ g.version = h.version
    /\ DOMAIN g.args \subseteq DOMAIN h.args
    /\ DOMAIN g.args # DOMAIN h.args
    /\ \A k \in DOMAIN g.args : g.args[k] = h.args[k]
    /\ \A k \in DOMAIN h.args \ DOMAIN g.args :
          /\ k \in DOMAIN defaults(h.version, h.msg_type)
          /\ h.args[k] = defaults(h.version, h.msg_type)[k]

\* C29: a Message built without a defaulted argument and one built with it
\* passed at its default store the same arguments and encode to the same
\* frame
C29_DefaultElision ==
    \A s, t \in Slots :
        DefaultsSpelledOut(given[s], given[t]) =>
            /\ pdus[s].args = pdus[t].args
            /\ \A o \in outs[s], q \in outs[t] :
                  o[1] = q[1] => o[2] = q[2]

\* a notify built from its required arguments alone and one built with
\* urgency and category passed at their defaults, both encoded
C29_Witness ==
    /\ Constructed(1)
    /\ Constructed(2)
    /\ given[1].msg_type = "notify"
    /\ given[1].args = NotifyPlain
    /\ given[2].args =
          NotifyPlain @@ [urgency |-> URGENCY_LOW, category |-> Null]
    /\ DefaultsSpelledOut(given[1], given[2])
    /\ \E o \in outs[1] : o[1] = curr_version
    /\ \E q \in outs[2] : q[1] = curr_version

\* slot s holds a Message
Built(s) == given[s].how # "none"

\* the arguments frame carries at the default a message of m's type and
\* version declares for them
DefaultsCarried(m, frame) ==
    {k \in DOMAIN frame.items \cap DOMAIN defaults(m.version, m.msg_type) :
        frame.items[k] = defaults(m.version, m.msg_type)[k]}

\* the arguments m stores at their declared default
DefaultsStored(m) ==
    {k \in DOMAIN m.args \cap DOMAIN defaults(m.version, m.msg_type) :
        m.args[k] = defaults(m.version, m.msg_type)[k]}

\* m and n have the same version, type and argument values, defaults
\* included
SameValues(m, n) ==
    /\ m.version = n.version
    /\ m.msg_type = n.msg_type
    /\ DOMAIN m.args \cup DOMAIN defaults(m.version, m.msg_type)
          = DOMAIN n.args \cup DOMAIN defaults(n.version, n.msg_type)
    /\ \A k \in DOMAIN m.args \cup DOMAIN defaults(m.version, m.msg_type) :
          getattr(m, k) = getattr(n, k)

\* C30: no frame to_frame returned carries an argument at its declared
\* default, and two Messages of the same version, type and argument values,
\* constructed or decoded, encode to the same frame
C30_CanonicalWire ==
    /\ \A s \in Slots :
          Built(s) => \A o \in outs[s] : DefaultsCarried(pdus[s], o[2]) = {}
    /\ \A s, t \in Slots :
          (Built(s) /\ Built(t) /\ SameValues(pdus[s], pdus[t])) =>
              \A o \in outs[s], q \in outs[t] : o[1] = q[1] => o[2] = q[2]

\* C30, for the frames to_frame builds: no Message, constructed or decoded,
\* stores an argument at its declared default, and two Messages of the same
\* version, type and argument values store the same arguments; no frame
\* returned for a constructed Message carries an argument at its default,
\* and two constructed Messages of the same version, type and argument
\* values encode to the same frame; a decoded Message returns the frame it
\* was decoded from
C30_CanonicalWhenBuilt ==
    /\ \A s \in Slots : Built(s) => DefaultsStored(pdus[s]) = {}
    /\ \A s, t \in Slots :
          (Built(s) /\ Built(t) /\ SameValues(pdus[s], pdus[t])) =>
              pdus[s].args = pdus[t].args
    /\ \A s \in Slots :
          Constructed(s) =>
              \A o \in outs[s] : DefaultsCarried(pdus[s], o[2]) = {}
    /\ \A s, t \in Slots :
          (Constructed(s) /\ Constructed(t)
              /\ SameValues(pdus[s], pdus[t])) =>
              \A o \in outs[s], q \in outs[t] : o[1] = q[1] => o[2] = q[2]
    /\ \A s \in Slots :
          given[s].how = "frame" =>
              \A o \in outs[s] : o[2] = given[s].frame

\* a notify decoded from a frame that carries urgency at its default has
\* returned that frame, and a notify constructed with the same values has
\* been encoded without it
C30_Witness ==
    /\ given[1].how = "frame"
    /\ given[1].frame =
          wire("notify", 0, NotifyPlain @@ [urgency |-> URGENCY_LOW])
    /\ <<0, given[1].frame>> \in outs[1]
    /\ Constructed(2)
    /\ SameValues(pdus[1], pdus[2])
    /\ pdus[1].args = pdus[2].args
    /\ <<0, wire("notify", 0, NotifyPlain)>> \in outs[2]

\* the arguments a frame that is a map carries
Carried(frame) ==
    [k \in DOMAIN frame.items \ {"__version__", "msg_type"} |->
        frame.items[k]]

\* frame is a map with __version__ and msg_type
WellFormed(frame) ==
    /\ isdict(frame)
    /\ "__version__" \in DOMAIN frame.items
    /\ "msg_type" \in DOMAIN frame.items

\* C31: the constructor fails when a required argument of a known type is
\* missing, and so does from_frame; from_frame fails for a frame that is
\* not a map, lacks __version__ or msg_type or names a version that is not
\* supported; a frame of a supported version and an unknown type decodes to
\* a Message that is not known and has every argument the frame carried
C31_SameValidity ==
    /\ (cact.name = "init" /\ cact.version \in versions
            /\ cact.msg_type \in known_types(cact.version)
            /\ required(cact.version, cact.msg_type) \ DOMAIN cact.args # {})
           => ~cact.ok
    /\ cact.name = "from_frame" =>
          /\ ~WellFormed(cact.frame) => ~cact.ok
          /\ (WellFormed(cact.frame)
                 /\ cact.frame.items["__version__"] \notin versions)
                => ~cact.ok
          /\ (WellFormed(cact.frame)
                 /\ cact.frame.items["__version__"] \in versions
                 /\ cact.frame.items["msg_type"]
                        \in known_types(cact.frame.items["__version__"])
                 /\ required(cact.frame.items["__version__"],
                             cact.frame.items["msg_type"])
                        \ DOMAIN cact.frame.items # {})
                => ~cact.ok
          /\ (WellFormed(cact.frame)
                 /\ cact.frame.items["__version__"] \in versions
                 /\ cact.frame.items["msg_type"]
                        \notin known_types(cact.frame.items["__version__"]))
                => /\ cact.ok
                   /\ ~known(pdus[cact.slot])
                   /\ pdus[cact.slot].msg_type = cact.frame.items["msg_type"]
                   /\ pdus[cact.slot].args = Carried(cact.frame)

\* the loop of a submit call f has visited exactly the entries of its list
\* copy that are not pending, each of them once, and nothing else
WalksSnapshot(f) ==
    /\ f.pending \subseteq f.snapshot
    /\ f.attempted = Clients(f.snapshot \ f.pending)
    /\ f.turns = Cardinality(f.snapshot \ f.pending)
    /\ f.delivered \subseteq f.attempted

\* a step of a connection's handler that is not a turn of the loop of a
\* submit in progress nor its end
Meanwhile ==
    /\ InFanout # {}
    /\ act'.name \in {"Recv", "Closed", "Accept", "CallSubscribe",
                      "CallUnsubscribe"}

\* C32: submit walks the list copy of the registry it took when it
\* started.  A subscribe, a goodbye or a closed() that runs while a submit
\* is in progress leaves the list, what is left of it to visit and the
\* outcome of the loop as they were; every turn of the loop visits an entry
\* of the list that was not visited yet and does not fail; a submit that
\* returns has visited every entry of its list once, so that a subscriber
\* of the list was neither skipped nor written twice, and it wrote to an
\* entry whose connection was open and whose version it can encode; a
\* connection that subscribed after the list was taken is not written to
C32_SnapshotFanout ==
    [][/\ \A k \in ConnIds :
             fan'[k].phase = "fanout" => WalksSnapshot(fan'[k])
       /\ Meanwhile =>
             \A k \in InFanout :
                /\ fan'[k].phase = "fanout"
                /\ fan'[k].snapshot = fan[k].snapshot
                /\ fan'[k].pending = fan[k].pending
                /\ fan'[k].attempted = fan[k].attempted
                /\ fan'[k].turns = fan[k].turns
                /\ fan'[k].raised = fan[k].raised
       /\ act'.name = "FanoutWrite" =>
             LET k == act'.conn
                 t == act'.target
             IN  /\ t \in fan[k].pending
                 /\ t[1] \notin fan[k].attempted
                 /\ fan'[k].snapshot = fan[k].snapshot
                 /\ ~fan'[k].raised
                 /\ (tendril[t[1]] = "open" /\ t[2] = curr_version) =>
                       /\ t[1] \in fan'[k].delivered
                       /\ Len(wrote') = 1
                       /\ wrote'[1].to = t[1]
                 /\ Len(wrote') > 0 => wrote'[1].to \in Clients(fan[k].snapshot)
       /\ (act'.name \in {"NotifyReply", "SubmitReturn"}
              /\ ~act'.f.raised) =>
             /\ act'.f.attempted = Clients(act'.f.snapshot)
             /\ act'.f.turns = Cardinality(act'.f.snapshot)
      ]_vars

\* a submit has returned after another connection subscribed while it was
\* in progress: it wrote to the subscriber of its list, which stayed
\* registered, and not to the new one
C32_Witness ==
    /\ act.name = "SubmitReturn"
    /\ ~act.f.raised
    /\ act.f.snapshot # {}
    /\ \E s \in act.f.delivered : s \in Registered /\ s \notin act.f.left
    /\ \E n \in Registered :
          /\ subscribers[n] = curr_version
          /\ tendril[n] = "open"
          /\ n \notin Clients(act.f.snapshot)
          /\ n \notin act.f.attempted

TypeOK ==
    /\ running \in BOOLEAN
    /\ \A c \in ConnIds : tendril[c] \in {"none", "open", "closed"}
    /\ \A c \in ConnIds : subscribers[c] \in {NoSub} \cup versions


(***************************************************************************)
(* The order of notifications from the submitter to the sink.               *)
(***************************************************************************)
\* a notification of the hub, as opposed to an event the notifier queued
FromHub(m) ==
    /\ m.msg_type = "notify"
    /\ getattr(m, "id") # notifier_app_id

\* the number of the uuid4() call of the hub that made the id of m: the
\* hub gives the n-th notification without an id it handles the n-th id
Serial(m) ==
    IF \E n \in 1..uuids : getattr(m, "id") = uuid4(n)
    THEN CHOOSE n \in 1..uuids : getattr(m, "id") = uuid4(n)
    ELSE 0

\* the hub's notifications on their way to the sink, oldest first: those
\* in the queue of the notifier, then those written to its connection
Pipeline(q, ch) ==
    SelectSeq([i \in 1..Len(q) |-> q[i].msg], FromHub)
    \o SelectSeq([i \in 1..Len(ch) |-> from_frame(ch[i]).val], FromHub)

\* handled earlier means further ahead
InOrder(p) == \A i, j \in 1..Len(p) : i < j => Serial(p[i]) < Serial(p[j])

\* C33: the notifications one submitter connection sends reach every
\* subscriber in the order the hub handled them: every notify frame a step
\* writes, to whichever subscriber, is the rewritten form of the
\* notification handled last, so none is written after a later one; on the
\* notifier's connection and in its queue an earlier notification is ahead
\* of a later one, and next() returns a notification only when every other
\* one on its way was handled later.
C33_PerSubscriberOrder ==
    /\ [] InOrder(Pipeline(notifications, chan.q))
    /\ [][ /\ \A i \in 1..Len(wrote') :
                Decoded(wrote'[i]).msg_type = "notify"
                => getattr(Decoded(wrote'[i]), "id") = uuid4(uuids')
           /\ ( /\ nact'.name = "NNext"
                /\ nact' # nact
                /\ FromHub(nact'.item.msg) )
              => LET p == Pipeline(notifications', chan'.q) IN
                 \A i \in 1..Len(p) : Serial(nact'.item.msg) < Serial(p[i])
       ]_vars

\* next() returned the first notification of the submitter while the
\* second one, fanned out to the notifier too, waits in the queue
C33_Witness ==
    /\ nact.name = "NNext"
    /\ FromHub(nact.item.msg)
    /\ Serial(nact.item.msg) = 1
    /\ \E i \in 1..Len(notifications) :
          /\ FromHub(notifications[i].msg)
          /\ Serial(notifications[i].msg) = 2
    /\ subscribers[Submitter] # NoSub
    /\ uuids = 2


(***************************************************************************)
(* How an iteration over the NotifierServer ends.                          *)
(***************************************************************************)
\* the number of sentinels in the queue q
Sentinels(q) == Cardinality({i \in 1..Len(q) : q[i].none})

\* the last step called stop() without arguments on a running notifier:
\* the hub's goodbye or error, a frame that does not parse, or closed()
StoppedItself ==
    /\ nact'.name \in {"NRecv", "NClosed"}
    /\ hub_app # "None"
    /\ hub_app' = "None"

\* C34: next() raises StopIteration only with the queue empty and the
\* notifier not running, and waits only with the queue empty and the
\* notifier running; while it waits with the event clear the queue is
\* empty and the notifier runs. A stop() without signal arguments queues
\* no sentinel, so next() returns every entry queued before it raises
\* StopIteration, and the iteration that follows a StopIteration starts a
\* new connection.
C34_IterationEnds ==
    /\ [] ( (pc = "wait" /\ ~notify_event)
            => (notifications = <<>> /\ hub_app # "None") )
    /\ [][ /\ (pc = "idle" /\ pc' = "stopped")
              => (notifications = <<>> /\ hub_app = "None")
           /\ (pc = "idle" /\ pc' = "wait")
              => (notifications = <<>> /\ hub_app # "None")
           /\ (pc = "idle" /\ pc' \in {"idle", "stopped", "wait", "exited"}
               /\ nact'.name = "NNext" /\ notifications # <<>>)
              => /\ nact'.kind \in {"return", "exit"}
                 /\ nact'.item = Head(notifications)
           /\ StoppedItself
              => Sentinels(notifications') = Sentinels(notifications)
           /\ (pc = "stopped" /\ pc' # "stopped" /\ hub_app = "None")
              => /\ nact'.name = "NIter"
                 /\ nconn' = "connecting"
                 /\ nstart' = nstart + 1
                 /\ sess'.n = nstart + 1
       ]_vars

\* after a session that ended without a signal next() has returned all
\* that was queued and raised StopIteration, and the next iteration has
\* started the second connection
C34_Witness ==
    /\ nact.name = "NIter"
    /\ nact.kind = "start"
    /\ nstart = 2
    /\ nsig = 0
    /\ sess.before \in {"goodbye", "error", "malformed", "closed"}
    /\ nconn = "connecting"
    /\ notifications = <<>>


(***************************************************************************)
(* Redundant start.                                                        *)
(***************************************************************************)
\* the last step was a call of HubServer.start
HubStarted == act'.name = "Start" /\ nact' = nact

\* the last step was a call of NotifierServer.start
NotifierStarted == nact'.name = "NStart" /\ act' = act

\* C35 (as stated): start on a running hub raises, starts no manager and
\* leaves the running state and the registry unchanged; start on a
\* notifier that is connecting or connected raises, starts and connects
\* no manager and leaves the running state and the queue unchanged; a
\* start that follows a stop or a shutdown is accepted.
C35_RedundantStart ==
    [][ /\ (HubStarted /\ running)
           => /\ act'.kind = "raised"
              /\ UNCHANGED <<running, listeners, subscribers, tendril,
                             persist, fan>>
        /\ (HubStarted
            /\ \A e \in Endpoints : listeners[e] \in {"stopped", "shutdown"})
           => /\ act'.kind # "raised"
              /\ running'
              /\ \A e \in Endpoints : listeners'[e] = "started"
        /\ (NotifierStarted /\ hub_app # "None")
           => /\ nact'.kind = "raised"
              /\ UNCHANGED <<hub_app, manager, nconn, notifications,
                             notify_event, sess, nstart>>
        /\ (NotifierStarted /\ manager \in {"stopped", "shutdown"}
            /\ nstart < MaxStarts)
           => /\ nact'.kind # "raised"
              /\ hub_app' = "True"
              /\ manager' = "started"
              /\ nconn' = "connecting"
      ]_vars


(***************************************************************************)
(* The reply to subscribe and the fan-out.                                 *)
(***************************************************************************)
\* the frames a step wrote to connection c, decoded
WrittenTo(w, c) ==
    LET mine == SelectSeq(w, LAMBDA x : x.to = c)
    IN  [i \in 1..Len(mine) |-> from_frame(mine[i].frame).val.msg_type]

\* C36: a step that enters a connection into the registry writes
\* subscribed to it and nothing else, and a notify frame is written only to
\* a connection that was sent subscribed before, whatever calls of submit
\* are under way; so the first frame on the notifier's connection is
\* subscribed, and the notifier has queued the CONNECTED event of its
\* session when it queues a notification of the hub.
C36_SubscribedFirst ==
    /\ [] ( (chan.on /\ nframes = 0 /\ chan.q # <<>>)
            => from_frame(Head(chan.q)).val.msg_type = "subscribed" )
    /\ [] ( \A i \in 1..Len(notifications) :
              (~notifications[i].none /\ FromHub(notifications[i].msg))
              => sess.connected >= 1 )
    /\ [][ \A c \in ConnIds :
             /\ (subscribers[c] = NoSub /\ subscribers'[c] # NoSub)
                => WrittenTo(wrote', c) = <<"subscribed">>
             /\ (\E i \in 1..Len(wrote') :
                    /\ wrote'[i].to = c
                    /\ Decoded(wrote'[i]).msg_type = "notify")
                => /\ persist[c]
                   /\ subscribers[c] # NoSub
       ]_vars

\* the hub has read the notifier's subscribe while the submitter's handler
\* was inside submit, and has written subscribed to the notifier
C36_Witness ==
    /\ act.name = "Recv"
    /\ act.conn = NotifierConn
    /\ act.kind = "subscribe"
    /\ fan[Submitter].phase = "fanout"
    /\ fan[Submitter].pending # {}
    /\ subscribers[NotifierConn] # NoSub
    /\ chan.q = <<frame_of(Message("subscribed", EmptyDict))>>


(***************************************************************************)
(* Nothing is fanned out to a subscriber after its goodbye.                *)
(***************************************************************************)
\* the types of the frames written to the notifier's connection so far
Wired == [i \in 1..Len(chan.q) |-> from_frame(chan.q[i]).val.msg_type]

\* C37: the step that writes goodbye to a connection, for the subscriber's
\* own goodbye or for a stop of the hub, takes it out of the registry and
\* closes it; a closed connection stays closed and no notify frame is
\* written to it, whatever submit call still has it in its list: on a
\* connection no notify frame follows a goodbye frame.
C37_NoNotifyAfterGoodbye ==
    /\ [] ( \A i, j \in 1..Len(chan.q) :
              (i < j /\ Wired[i] = "goodbye") => Wired[j] # "notify" )
    /\ [][ \A c \in ConnIds :
             /\ (\E i \in 1..Len(WrittenTo(wrote', c)) :
                    WrittenTo(wrote', c)[i] = "goodbye")
                => /\ tendril'[c] = "closed"
                   /\ subscribers'[c] = NoSub
             /\ tendril[c] = "closed"
                => /\ tendril'[c] = "closed"
                   /\ \A i \in 1..Len(WrittenTo(wrote', c)) :
                         WrittenTo(wrote', c)[i] # "notify"
       ]_vars

\* the loop of submit has come to a subscriber of its list that was sent
\* goodbye after the call began, and has written nothing
C37_Witness ==
    /\ act.name = "FanoutWrite"
    /\ act.target[1] = NotifierConn
    /\ NotifierConn \in Clients(fan[Submitter].snapshot)
    /\ NotifierConn \in fan[Submitter].attempted
    /\ NotifierConn \notin fan[Submitter].delivered
    /\ wrote = <<>>
    /\ Len(chan.q) >= 2
    /\ Wired[Len(chan.q)] = "goodbye"


(***************************************************************************)
(* The registry of a hub that is not running.                              *)
(***************************************************************************)
\* C38 (as stated): a hub that is not running has an empty registry and
\* writes no notify frame.
C38_StoppedHubEmpty ==
    ~running =>
        /\ Registered = {}
        /\ \A i \in 1..Len(wrote) : Decoded(wrote[i]).msg_type # "notify"


(***************************************************************************)
(* The teardown of a session of the notifier.                              *)
(***************************************************************************)
\* C39 (as stated): in a session NotifierApplication.disconnect, and with
\* it close(), is called at most once and at most one goodbye frame is
\* sent, and no frame is sent on a connection that has been closed.
C39_DisconnectOnce ==
    [][ /\ sess'.disconnects <= 1
        /\ sess'.goodbyes <= 1
        /\ (nconn = "closed" /\ nact' # nact) => nact'.sent = <<>>
      ]_vars


(***************************************************************************)
(* The notifier after stop() or shutdown() has returned.                   *)
(***************************************************************************)
\* C40 (as stated): a notifier that is not running has no open connection,
\* and only a call of start() makes a notifier that is not running a
\* running one.
C40_StaysStopped ==
    [][ /\ (hub_app = "None" /\ hub_app' # "None")
           => /\ nact'.name \in {"NIter", "NStart"}
              /\ nstart' = nstart + 1
        /\ hub_app' = "None" => nconn' # "open"
      ]_vars

====
